---- MODULE Spec2Model ----
(***************************************************************************)
(* benchmark-rs: the pausable StopWatch and the Benchmark::run executor.   *)
(*                                                                         *)
(* Time is a discrete clock `now` (one unit = one tick of Instant).        *)
(* Durations are numbers of ticks.  Two specifications:                    *)
(*   SpecTimer : one StopWatch driven by arbitrary calls of its methods;   *)
(*   Spec      : Benchmark::run, the workload function being any sequence  *)
(*               of StopWatch calls and clock ticks ending in Ok or Err.   *)
(***************************************************************************)
EXTENDS Integers, Sequences, FiniteSets, TLC

\* ---------------------------------------------------------------- bounds
\* last instant of the clock in Spec
MaxNow == 2
\* last instant of the clock in SpecTimer
MaxTimerNow == 5
\* longest workload-point list
MaxWork == 2
\* largest repeat count
MaxRepeat == 2
\* largest ramp-up count
MaxRampUp == 1

\* workload points (values of type W)
Points == {1, 2}
\* error values (type E) the workload function may return
Errors == {"E1", "E2"}

VARIABLES
    now,            \* Instant::now()
    stop_watch,     \* the StopWatch: [accumulated, checkpoint, is_stopped]
    op,             \* SpecTimer: the method called last
    ret,            \* SpecTimer: what the last accumulated() returned
    ran,            \* history: ticks that passed while the timer was running
    idle,           \* history: ticks that passed while the timer was stopped
    wreset,         \* history: reset() was called on this timer
    benchmark,      \* the Benchmark: [name, config, work, repeat, ramp_up]
    pc,             \* position of Benchmark::run
    wi,             \* index of the workload point `w` of the outer loop
    i,              \* `_i` of the ramp-up loop or of the measured loop
    durations,      \* `durations` of the current workload point
    error,          \* `error: Option<Error>`
    series_summary, \* `series_summary` being built
    result,         \* what run returned
    calls,          \* history: every invocation of the workload function
    failed,         \* history: the first invocation that returned Err
    text,           \* SpecTimer: what the last to_string() returned
    suite,          \* the Benchmarks: [name, names, benchmarks, summaries]
    call,           \* the last call on the suite: its arguments and result
    runs_done       \* history: calls of Benchmarks::run so far

vars == <<now, stop_watch, op, ret, ran, idle, wreset, benchmark, pc, wi, i,
          durations, error, series_summary, result, calls, failed,
          text, suite, call, runs_done>>

timerVars == <<now, stop_watch, op, ret, ran, idle, wreset>>
runVars == <<benchmark, pc, wi, i, durations, error, series_summary, result,
             calls, failed>>

\* the variables Benchmark::run and the StopWatch methods do not touch
idleVars == <<text, suite, call, runs_done>>

None == [tag |-> "None"]
Some(e) == [tag |-> "Some", value |-> e]

\* ------------------------------------------------------------- StopWatch
\* checkpoint.elapsed() at instant t
elapsed(checkpoint, t) == t - checkpoint

StopWatch_new(t) ==
    [accumulated |-> 0, checkpoint |-> t, is_stopped |-> TRUE]

\* start without the `if self.is_stopped` guard: the checkpoint always moves
StopWatch_start_unguarded(sw, t) ==
    [sw EXCEPT !.checkpoint = t, !.is_stopped = FALSE]

StopWatch_start(sw, t) ==
    IF sw.is_stopped
    THEN [sw EXCEPT !.checkpoint = t, !.is_stopped = FALSE]
    ELSE sw

StopWatch_resume(sw, t) == StopWatch_start(sw, t)

\* reset that forgets `self.is_stopped = true`
StopWatch_reset_keeps_flag(sw, t) ==
    [sw EXCEPT !.accumulated = 0, !.checkpoint = t]

StopWatch_reset(sw, t) ==
    [accumulated |-> 0, checkpoint |-> t, is_stopped |-> TRUE]

\* stop without the `if !self.is_stopped` guard
StopWatch_stop_unguarded(sw, t) ==
    [sw EXCEPT !.accumulated = @ + elapsed(sw.checkpoint, t),
               !.is_stopped = TRUE]

\* stop that assigns the elapsed interval instead of adding it
StopWatch_stop_assigns(sw, t) ==
    IF ~sw.is_stopped
    THEN [sw EXCEPT !.accumulated = elapsed(sw.checkpoint, t),
                    !.is_stopped = TRUE]
    ELSE sw

StopWatch_stop(sw, t) ==
    IF ~sw.is_stopped
    THEN [sw EXCEPT !.accumulated = @ + elapsed(sw.checkpoint, t),
                    !.is_stopped = TRUE]
    ELSE sw

StopWatch_pause(sw, t) == StopWatch_stop(sw, t)

StopWatch_accumulated(sw) == sw.accumulated

\* one tick of the clock is a millisecond
NanosPerTick == 1000000
\* Duration::as_secs and Duration::subsec_nanos split at a second
NanosPerSec == 1000000000

pad2(n) == IF n < 10 THEN "0" \o ToString(n) ELSE ToString(n)
pad3(n) == IF n < 10 THEN "00" \o ToString(n)
           ELSE IF n < 100 THEN "0" \o ToString(n) ELSE ToString(n)

\* NaiveDateTime::from_timestamp_opt(secs, nsecs) formatted "%H:%M:%S.%3f":
\* the time of day, whole milliseconds
format_clock(secs, nsecs) ==
    pad2((secs \div 3600) % 24) \o ":" \o pad2((secs \div 60) % 60) \o ":"
        \o pad2(secs % 60) \o "." \o pad3(nsecs \div 1000000)

\* Display that renders the stored duration only
StopWatch_fmt_stored(sw, t) ==
    LET nanos == sw.accumulated * NanosPerTick
    IN  format_clock(nanos \div NanosPerSec, nanos % NanosPerSec)

\* impl Display for StopWatch
StopWatch_fmt(sw, t) ==
    LET accumulated == IF ~sw.is_stopped
                       THEN sw.accumulated + elapsed(sw.checkpoint, t)
                       ELSE sw.accumulated
        nanos == accumulated * NanosPerTick
    IN  format_clock(nanos \div NanosPerSec, nanos % NanosPerSec)

\* ------------------------------------------------- SpecTimer: one StopWatch
IdleRun ==
    /\ benchmark = [name |-> "b", config |-> "c", work |-> <<>>,
                    repeat |-> 1, ramp_up |-> 0]
    /\ pc = "timer"
    /\ wi = 0
    /\ i = 0
    /\ durations = <<>>
    /\ error = None
    /\ series_summary = None
    /\ result = None
    /\ calls = <<>>
    /\ failed = None

\* no suite is in use
IdleSuite ==
    /\ suite = None
    /\ call = None
    /\ runs_done = 0

TimerInit ==
    /\ now \in 0..1
    /\ stop_watch = StopWatch_new(now)
    /\ op = "new"
    /\ ret = 0
    /\ ran = 0
    /\ idle = 0
    /\ wreset = FALSE
    /\ text = ""
    /\ IdleRun
    /\ IdleSuite

\* the clock advances by one tick
TimerTick ==
    /\ pc = "timer"
    /\ now < MaxTimerNow
    /\ now' = now + 1
    /\ op' = "tick"
    /\ ran' = IF stop_watch.is_stopped THEN ran ELSE ran + 1
    /\ idle' = IF stop_watch.is_stopped THEN idle + 1 ELSE idle
    /\ UNCHANGED <<stop_watch, ret, wreset>>
    /\ UNCHANGED runVars
    /\ UNCHANGED idleVars

TimerStart ==
    /\ pc = "timer"
    /\ stop_watch' = StopWatch_start(stop_watch, now)
    /\ op' = "start"
    /\ UNCHANGED <<now, ret, ran, idle, wreset>>
    /\ UNCHANGED runVars
    /\ UNCHANGED idleVars

TimerResume ==
    /\ pc = "timer"
    /\ stop_watch' = StopWatch_resume(stop_watch, now)
    /\ op' = "resume"
    /\ UNCHANGED <<now, ret, ran, idle, wreset>>
    /\ UNCHANGED runVars
    /\ UNCHANGED idleVars

TimerReset ==
    /\ pc = "timer"
    /\ stop_watch' = StopWatch_reset(stop_watch, now)
    /\ op' = "reset"
    /\ wreset' = TRUE
    /\ UNCHANGED <<now, ret, ran, idle>>
    /\ UNCHANGED runVars
    /\ UNCHANGED idleVars

TimerStop ==
    /\ pc = "timer"
    /\ stop_watch' = StopWatch_stop(stop_watch, now)
    /\ op' = "stop"
    /\ UNCHANGED <<now, ret, ran, idle, wreset>>
    /\ UNCHANGED runVars
    /\ UNCHANGED idleVars

TimerPause ==
    /\ pc = "timer"
    /\ stop_watch' = StopWatch_pause(stop_watch, now)
    /\ op' = "pause"
    /\ UNCHANGED <<now, ret, ran, idle, wreset>>
    /\ UNCHANGED runVars
    /\ UNCHANGED idleVars

TimerAccumulated ==
    /\ pc = "timer"
    /\ ret' = StopWatch_accumulated(stop_watch)
    /\ op' = "accumulated"
    /\ UNCHANGED <<now, stop_watch, ran, idle, wreset>>
    /\ UNCHANGED runVars
    /\ UNCHANGED idleVars

TimerToString ==
    /\ pc = "timer"
    /\ text' = StopWatch_fmt(stop_watch, now)
    /\ op' = "to_string"
    /\ UNCHANGED <<now, stop_watch, ret, ran, idle, wreset>>
    /\ UNCHANGED runVars
    /\ UNCHANGED <<suite, call, runs_done>>

TimerNext ==
    \/ TimerTick
    \/ TimerStart
    \/ TimerResume
    \/ TimerReset
    \/ TimerStop
    \/ TimerPause
    \/ TimerAccumulated
    \/ TimerToString

SpecTimer == TimerInit /\ [][TimerNext]_vars

\* ------------------------------------------------------------ data types
\* Display of the small integers used as configuration and workload points
to_string(x) == <<"0", "1", "2", "3">>[x + 1]

\* anyhow::Error::from(e), the `e.into()` and `?` conversions
Error_from(e) == [anyhow |-> e]

Ok(v) == [tag |-> "Ok", value |-> v]
Err(e) == [tag |-> "Err", value |-> e]

Benchmark_new(name, config, work, repeat, ramp_up) ==
    [name |-> name, config |-> config, work |-> work,
     repeat |-> repeat, ramp_up |-> ramp_up]

\* the fields of RunSummary that carry data (the _sec and _str fields are
\* renderings of min, max and median)
RunSummary_new(name, ramp_up, repeat, min, max, median) ==
    [name |-> name, ramp_up |-> ramp_up, repeat |-> repeat,
     min_nanos |-> min, max_nanos |-> max, median_nanos |-> median]

SeriesSummary_new(name, config) ==
    [name |-> name, config |-> config, runs |-> <<>>]

\* add that puts the new pair in front
SeriesSummary_add_front(ss, point, run_summary) ==
    [ss EXCEPT !.runs = <<(<<point, run_summary>>)>> \o @]

SeriesSummary_add(ss, point, run_summary) ==
    [ss EXCEPT !.runs = Append(@, <<point, run_summary>>)]

\* statrs Data::min, Data::max, Data::median over the durations, cast to u64
Range(d) == {d[k] : k \in DOMAIN d}
Data_min(d) == CHOOSE x \in Range(d) : \A y \in Range(d) : x <= y
Data_max(d) == CHOOSE x \in Range(d) : \A y \in Range(d) : x >= y
\* the median that takes the upper of the two middle values
Data_median_upper(d) ==
    LET s == SortSeq(d, LAMBDA a, b : a < b)
    IN  s[Len(s) \div 2 + 1]

Data_median(d) ==
    LET s == SortSeq(d, LAMBDA a, b : a < b)
        n == Len(s)
    IN  IF n % 2 = 1
        THEN s[(n + 1) \div 2]
        ELSE (s[n \div 2] + s[n \div 2 + 1]) \div 2

\* Duration::as_nanos of a duration counted in ticks
as_nanos(d) == d * NanosPerTick

\* the RunSummary of one workload point of benchmark b, nanos being the
\* measured durations `d.as_nanos() as f64`: lines 73-88. The casts to f64 and
\* back to u64 are exact below 2^53 nanoseconds, and the cast of the mean of
\* the two middle values drops its half nanosecond.
RunSummary_of(b, nanos) ==
    RunSummary_new(b.name, b.ramp_up, b.repeat,
                   Data_min(nanos), Data_max(nanos), Data_median(nanos))

\* ------------------------------------------------------ Spec: Benchmark::run
\* all sequences over S of length at most n
SeqsUpTo(S, n) == UNION {[1..k -> S] : k \in 0..n}

Init ==
    /\ now = 0
    /\ stop_watch = StopWatch_new(0)
    /\ op = "new"
    /\ ret = 0
    /\ ran = 0
    /\ idle = 0
    /\ wreset = FALSE
    /\ \E work \in SeqsUpTo(Points, MaxWork), repeat \in 1..MaxRepeat,
          ramp_up \in 0..MaxRampUp :
          benchmark = Benchmark_new("b", 0, work, repeat, ramp_up)
    /\ pc = "idle"
    /\ wi = 0
    /\ i = 0
    /\ durations = <<>>
    /\ error = None
    /\ series_summary = None
    /\ result = None
    /\ calls = <<>>
    /\ failed = None
    /\ text = ""
    /\ IdleSuite

InCall == pc \in {"ramp_call", "measure_call"}

\* `(self.f)(&mut stop_watch, self.config.clone(), w.clone())` is entered
Invoke(measured) ==
    /\ calls' = Append(calls, [index |-> wi, point |-> benchmark.work[wi],
                               measured |-> measured])
    /\ ran' = 0
    /\ idle' = 0
    /\ wreset' = FALSE

\* run is called: lines 49-50
Run_enter ==
    /\ pc = "idle"
    /\ series_summary' = SeriesSummary_new(benchmark.name,
                                           to_string(benchmark.config))
    /\ error' = None
    /\ wi' = 1
    /\ pc' = "point"
    /\ UNCHANGED <<benchmark, i, durations, result, calls, failed>>
    /\ UNCHANGED timerVars
    /\ UNCHANGED idleVars

\* `for w in &self.work`: line 51
Run_next_point ==
    /\ pc = "point"
    /\ IF wi <= Len(benchmark.work)
       THEN i' = 0 /\ pc' = "ramp"
       ELSE i' = i /\ pc' = "return"
    /\ UNCHANGED <<benchmark, wi, durations, error, series_summary, result,
                   calls, failed>>
    /\ UNCHANGED timerVars
    /\ UNCHANGED idleVars

\* `0..self.ramp_up` with the bound included
ramp_up_range_inclusive(b, k) == k <= b.ramp_up

\* `for _i in 0..self.ramp_up`: line 52
ramp_up_range(b, k) == k < b.ramp_up

\* `0..self.repeat` with the bound included
repeat_range_inclusive(b, k) == k <= b.repeat

\* `for _i in 0..self.repeat`: line 57
repeat_range(b, k) == k < b.repeat

\* one more ramp-up invocation, or on to the measured loop: lines 52-56
Run_ramp_up ==
    /\ pc = "ramp"
    /\ IF ramp_up_range(benchmark, i)
       THEN /\ stop_watch' = StopWatch_new(now)
            /\ Invoke(FALSE)
            /\ pc' = "ramp_call"
            /\ UNCHANGED <<i, durations>>
       ELSE /\ durations' = <<>>
            /\ i' = 0
            /\ pc' = "measure"
            /\ UNCHANGED <<stop_watch, calls, ran, idle, wreset>>
    /\ UNCHANGED <<now, op, ret, benchmark, wi, error, series_summary, result,
                   failed>>
    /\ UNCHANGED idleVars

\* the measured loop with one StopWatch for all trials
Run_measure_reusing_timer ==
    /\ pc = "measure"
    /\ IF repeat_range(benchmark, i)
       THEN /\ stop_watch' = StopWatch_start(stop_watch, now)
            /\ Invoke(TRUE)
            /\ pc' = "measure_call"
       ELSE /\ pc' = "match_error"
            /\ UNCHANGED <<stop_watch, calls, ran, idle, wreset>>
    /\ UNCHANGED <<now, op, ret, benchmark, wi, i, durations, error,
                   series_summary, result, failed>>
    /\ UNCHANGED idleVars

\* one more measured trial, or on to the aggregation: lines 57-60
Run_measure ==
    /\ pc = "measure"
    /\ IF repeat_range(benchmark, i)
       THEN /\ stop_watch' = StopWatch_start(StopWatch_new(now), now)
            /\ Invoke(TRUE)
            /\ pc' = "measure_call"
       ELSE /\ pc' = "match_error"
            /\ UNCHANGED <<stop_watch, calls, ran, idle, wreset>>
    /\ UNCHANGED <<now, op, ret, benchmark, wi, i, durations, error,
                   series_summary, result, failed>>
    /\ UNCHANGED idleVars

\* the StopWatch methods a workload function can call on its `&mut StopWatch`
StopWatch_call(m, sw, t) ==
    CASE m = "start" -> StopWatch_start(sw, t)
      [] m = "resume" -> StopWatch_resume(sw, t)
      [] m = "reset" -> StopWatch_reset(sw, t)
      [] m = "stop" -> StopWatch_stop(sw, t)
      [] m = "pause" -> StopWatch_pause(sw, t)

\* the workload function calls a method of the stop watch
Workload_call ==
    /\ InCall
    /\ \E m \in {"start", "resume", "reset", "stop", "pause"} :
          /\ stop_watch' = StopWatch_call(m, stop_watch, now)
          /\ wreset' = (wreset \/ m = "reset")
    /\ UNCHANGED <<now, op, ret, ran, idle>>
    /\ UNCHANGED <<benchmark, pc, wi, i, durations, error, series_summary,
                   result, calls, failed>>
    /\ UNCHANGED idleVars

\* time passes while the workload function runs
Workload_tick ==
    /\ InCall
    /\ now < MaxNow
    /\ now' = now + 1
    /\ ran' = IF stop_watch.is_stopped THEN ran ELSE ran + 1
    /\ idle' = IF stop_watch.is_stopped THEN idle + 1 ELSE idle
    /\ UNCHANGED <<stop_watch, op, ret, wreset>>
    /\ UNCHANGED runVars
    /\ UNCHANGED idleVars

\* a ramp-up invocation returns Ok(()): lines 54-55
Run_ramp_ok ==
    /\ pc = "ramp_call"
    /\ i' = i + 1
    /\ pc' = "ramp"
    /\ UNCHANGED <<benchmark, wi, durations, error, series_summary, result,
                   calls, failed>>
    /\ UNCHANGED timerVars
    /\ UNCHANGED idleVars

\* a ramp-up invocation returns Err(e) and the loop goes on
Run_ramp_err_ignored ==
    /\ pc = "ramp_call"
    /\ \E e \in Errors :
          failed' = Some([at |-> Len(calls), measured |-> FALSE, e |-> e])
    /\ i' = i + 1
    /\ pc' = "ramp"
    /\ UNCHANGED <<benchmark, wi, durations, error, series_summary, result,
                   calls>>
    /\ UNCHANGED timerVars
    /\ UNCHANGED idleVars

\* a ramp-up invocation returns Err(e), `?` returns it from run: line 54
Run_ramp_err ==
    /\ pc = "ramp_call"
    /\ \E e \in Errors :
          /\ result' = Err(Error_from(e))
          /\ failed' = Some([at |-> Len(calls), measured |-> FALSE, e |-> e])
    /\ pc' = "done"
    /\ UNCHANGED <<benchmark, wi, i, durations, error, series_summary, calls>>
    /\ UNCHANGED timerVars
    /\ UNCHANGED idleVars

\* a measured trial returns Ok(()): lines 61-64
Run_measured_ok ==
    /\ pc = "measure_call"
    /\ stop_watch' = StopWatch_stop(stop_watch, now)
    /\ durations' = Append(durations, StopWatch_accumulated(stop_watch'))
    /\ i' = i + 1
    /\ pc' = "measure"
    /\ UNCHANGED <<now, op, ret, ran, idle, wreset>>
    /\ UNCHANGED <<benchmark, wi, error, series_summary, result, calls,
                   failed>>
    /\ UNCHANGED idleVars

\* a measured trial returns Err(e): lines 65-68
Run_measured_err ==
    /\ pc = "measure_call"
    /\ \E e \in Errors :
          /\ error' = Some(Error_from(e))
          /\ failed' = Some([at |-> Len(calls), measured |-> TRUE, e |-> e])
    /\ pc' = "match_error"
    /\ UNCHANGED <<benchmark, wi, i, durations, series_summary, result, calls>>
    /\ UNCHANGED timerVars
    /\ UNCHANGED idleVars

\* the point's RunSummary is added to the series: lines 73-88
Run_aggregate ==
    /\ series_summary' =
          SeriesSummary_add(series_summary,
                            to_string(benchmark.work[wi]),
                            RunSummary_of(benchmark,
                                          [k \in DOMAIN durations |->
                                              as_nanos(durations[k])]))
    /\ wi' = wi + 1
    /\ pc' = "point"

\* `match error` that goes on with the next workload point after an error
Run_match_error_no_break ==
    /\ pc = "match_error"
    /\ IF error = None
       THEN Run_aggregate
       ELSE /\ wi' = wi + 1
            /\ pc' = "point"
            /\ UNCHANGED series_summary
    /\ UNCHANGED <<benchmark, i, durations, error, result, calls, failed>>
    /\ UNCHANGED timerVars
    /\ UNCHANGED idleVars

\* `match error` after the measured loop: lines 71-93
Run_match_error ==
    /\ pc = "match_error"
    /\ IF error = None
       THEN Run_aggregate
       ELSE /\ pc' = "return"
            /\ UNCHANGED <<wi, series_summary>>
    /\ UNCHANGED <<benchmark, i, durations, error, result, calls, failed>>
    /\ UNCHANGED timerVars
    /\ UNCHANGED idleVars

\* the final `match error`: lines 96-105
Run_return ==
    /\ pc = "return"
    /\ result' = IF error = None THEN Ok(series_summary) ELSE Err(error.value)
    /\ pc' = "done"
    /\ UNCHANGED <<benchmark, wi, i, durations, error, series_summary, calls,
                   failed>>
    /\ UNCHANGED timerVars
    /\ UNCHANGED idleVars

Next ==
    \/ Run_enter
    \/ Run_next_point
    \/ Run_ramp_up
    \/ Run_measure
    \/ Workload_call
    \/ Workload_tick
    \/ Run_ramp_ok
    \/ Run_ramp_err
    \/ Run_measured_ok
    \/ Run_measured_err
    \/ Run_match_error
    \/ Run_return

Spec == Init /\ [][Next]_vars

\* -------------------------------------------------------------- Benchmarks
\* HashMap::new and HashMap::insert: the value under an existing key is replaced
HashMap_new == <<>>

\* insert that extends the series already stored under the key
HashMap_insert_merging(m, k, v) ==
    [x \in DOMAIN m \cup {k} |->
        IF x = k
        THEN IF k \in DOMAIN m THEN [v EXCEPT !.runs = m[k].runs \o @] ELSE v
        ELSE m[x]]

HashMap_insert(m, k, v) ==
    [x \in DOMAIN m \cup {k} |-> IF x = k THEN v ELSE m[x]]

Benchmarks_new(name) ==
    [name |-> name, names |-> {}, benchmarks |-> <<>>,
     summaries |-> HashMap_new]

\* Benchmarks::add: the suite after the call and what the call returned
Benchmarks_add(s, name, config, work, repeat, ramp_up) ==
    LET exists == name \in s.names
        s1 == [s EXCEPT !.names = @ \cup {name}]
    IN  IF exists
        THEN [suite |-> s1,
              result |-> Err("Benchmark with identical name exists")]
        ELSE IF repeat = 0
        THEN [suite |-> s1, result |-> Err("Cannot benchmark 0 runs")]
        ELSE [suite |-> [s1 EXCEPT !.benchmarks =
                            Append(@, Benchmark_new(name, config, work,
                                                    repeat, ramp_up))],
              result |-> Ok(<<>>)]

\* the series Benchmark::run builds when no invocation fails, ds[k] being the
\* durations of the measured trials of workload point k
RECURSIVE Benchmark_run_series(_, _, _)
Benchmark_run_series(b, ds, k) ==
    IF k = 0
    THEN SeriesSummary_new(b.name, to_string(b.config))
    ELSE SeriesSummary_add(Benchmark_run_series(b, ds, k - 1),
                           to_string(b.work[k]),
                           RunSummary_of(b, [j \in DOMAIN ds[k] |->
                                                as_nanos(ds[k][j])]))

\* what Benchmark::run returns: o is Err(e) when an invocation of the
\* workload function fails with e, Ok(ds) when all of them succeed
Benchmark_run(b, o) ==
    IF o.tag = "Err"
    THEN Err(Error_from(o.value))
    ELSE Ok(Benchmark_run_series(b, o.value, Len(b.work)))

\* the key under the configuration text
summaries_key_config(b) == to_string(b.config)

\* `benchmark.name().clone()`, the key of the series: line 57
summaries_key(b) == b.name

\* Benchmarks::run from the k-th benchmark on, os[k] being the outcome of
\* the workload function in the k-th benchmark
RECURSIVE Benchmarks_run_from(_, _, _)
Benchmarks_run_from(s, os, k) ==
    IF k > Len(s.benchmarks)
    THEN [suite |-> s, result |-> Ok(<<>>)]
    ELSE LET summary == Benchmark_run(s.benchmarks[k], os[k])
         IN  IF summary.tag = "Err"
             THEN [suite |-> s, result |-> summary]
             ELSE Benchmarks_run_from(
                      [s EXCEPT !.summaries =
                          HashMap_insert(@, summaries_key(s.benchmarks[k]),
                                         summary.value)],
                      os, k + 1)

\* run that gives back the suite as it was when a benchmark fails
Benchmarks_run_rollback(s, os) ==
    LET r == Benchmarks_run_from(s, os, 1)
    IN  IF r.result.tag = "Err" THEN [r EXCEPT !.suite = s] ELSE r

Benchmarks_run(s, os) == Benchmarks_run_from(s, os, 1)

\* Summary::new; created_at, a rendering of the wall clock, is left out
Summary_new(name) == [name |-> name, series |-> HashMap_new]

Summary_add(summary, name, series) ==
    [summary EXCEPT !.series = HashMap_insert(@, name, series)]

\* Benchmarks::summary: every stored series is added under its key
Benchmarks_summary(s) == [Summary_new(s.name) EXCEPT !.series = s.summaries]

\* --------------------------------------------- SpecSuite: add, run, summary
\* calls of Benchmarks::run in one behaviour
MaxRuns == 2
\* largest duration of a measured trial, in ticks
MaxDuration == 1

BenchNames == {"a", "b"}
SuiteWork == {<<>>, <<1>>, <<2, 1>>}
Repeats == {0, 1}
RampUps == {1}
Durs == 0..MaxDuration

\* the durations of a run of b in which every measured trial of workload
\* point k takes d[k] ticks
Trials(b, d) == [k \in 1..Len(b.work) |-> [j \in 1..b.repeat |-> d[k]]]

\* the durations of the workload points of b: any, and the same for all
PointDurs(b) == [1..Len(b.work) -> Durs]
UniformDurs(b) == {[k \in 1..Len(b.work) |-> d] : d \in Durs}

\* the outcomes the workload function can give a benchmark: the trials of
\* point k take d[k] ticks for a d of D, or an invocation fails with e; it is
\* never called when there is no workload point
Outcomes(b, D) ==
    {Ok(Trials(b, d)) : d \in D}
        \cup (IF b.work = <<>> THEN {} ELSE {Err(e) : e \in Errors})

\* one outcome for each benchmark of the list bs
RECURSIVE OutcomeSeqs(_, _)
OutcomeSeqs(bs, uniform) ==
    IF bs = <<>>
    THEN {<<>>}
    ELSE LET b == bs[Len(bs)]
         IN  {Append(os, o) :
                 os \in OutcomeSeqs(SubSeq(bs, 1, Len(bs) - 1), uniform),
                 o \in Outcomes(b, IF uniform THEN UniformDurs(b)
                                   ELSE PointDurs(b))}

SuiteInit ==
    /\ now = 0
    /\ stop_watch = StopWatch_new(0)
    /\ op = "new"
    /\ ret = 0
    /\ ran = 0
    /\ idle = 0
    /\ wreset = FALSE
    /\ text = ""
    /\ IdleRun
    /\ suite = Benchmarks_new("S")
    /\ call = [op |-> "new"]
    /\ runs_done = 0

SuiteAdd ==
    /\ \E name \in BenchNames, work \in SuiteWork,
          repeat \in Repeats, ramp_up \in RampUps :
          LET r == Benchmarks_add(suite, name, 0, work, repeat, ramp_up)
          IN  /\ suite' = r.suite
              /\ call' = [op |-> "add", name |-> name, repeat |-> repeat,
                          result |-> r.result]
    /\ UNCHANGED <<runs_done, text>>
    /\ UNCHANGED timerVars
    /\ UNCHANGED runVars

SuiteRun ==
    /\ runs_done < MaxRuns
    /\ \E os \in OutcomeSeqs(suite.benchmarks, TRUE) :
          LET r == Benchmarks_run(suite, os)
          IN  /\ suite' = r.suite
              /\ call' = [op |-> "run", outcomes |-> os,
                          before |-> suite.summaries, result |-> r.result]
    /\ runs_done' = runs_done + 1
    /\ UNCHANGED text
    /\ UNCHANGED timerVars
    /\ UNCHANGED runVars

SuiteSummary ==
    /\ call' = [op |-> "summary", result |-> Benchmarks_summary(suite)]
    /\ UNCHANGED <<suite, runs_done, text>>
    /\ UNCHANGED timerVars
    /\ UNCHANGED runVars

SuiteNext ==
    \/ SuiteAdd
    \/ SuiteRun
    \/ SuiteSummary

SpecSuite == SuiteInit /\ [][SuiteNext]_vars

\* ------------------------------------------------------------ u64 and f64
\* A u64 is kept in two limbs of 30 bits, [hi, lo] for hi * 2^30 + lo, so that
\* values beyond the 53 bits of an f64 significand can be written.
Limb == 1073741824

u64(n) == [hi |-> n \div Limb, lo |-> n % Limb]

wide_is_zero(a) == a.hi = 0 /\ a.lo = 0
wide_lt(a, b) == a.hi < b.hi \/ (a.hi = b.hi /\ a.lo < b.lo)
wide_le(a, b) == ~wide_lt(b, a)
wide_odd(a) == a.lo % 2 = 1

\* 2 * a + bit
wide_double(a, bit) ==
    [hi |-> 2 * a.hi + (2 * a.lo + bit) \div Limb,
     lo |-> (2 * a.lo + bit) % Limb]

\* a \div 2
wide_half(a) ==
    [hi |-> a.hi \div 2, lo |-> (a.hi % 2) * (Limb \div 2) + a.lo \div 2]

\* a - b for a >= b
wide_sub(a, b) ==
    IF a.lo >= b.lo
    THEN [hi |-> a.hi - b.hi, lo |-> a.lo - b.lo]
    ELSE [hi |-> a.hi - b.hi - 1, lo |-> a.lo + Limb - b.lo]

wide_inc(a) ==
    IF a.lo + 1 = Limb
    THEN [hi |-> a.hi + 1, lo |-> 0]
    ELSE [hi |-> a.hi, lo |-> a.lo + 1]

\* 2^52, 2^53 and 2^54: an f64 significand s has 2^52 <= s < 2^53
Two52 == [hi |-> 4194304, lo |-> 0]
Two53 == [hi |-> 8388608, lo |-> 0]
Two54 == [hi |-> 16777216, lo |-> 0]

\* An f64 is NaN, an infinity, a zero, or (-1)^neg * sig * 2^exp. The u64
\* medians and their quotients stay far from the subnormal and the overflow
\* range, so exp is unbounded here.
f64_nan == [class |-> "nan"]
f64_inf(neg) == [class |-> "inf", neg |-> neg]
f64_zero(neg) == [class |-> "zero", neg |-> neg]
f64_finite(neg, sig, exp) ==
    [class |-> "finite", neg |-> neg, sig |-> sig, exp |-> exp]

\* round to nearest, ties to even: the f64 nearest to v.x * 2^v.e, for
\* v.x > 0; v.sticky says that the exact value is above v.x * 2^v.e and below
\* (v.x + 1) * 2^v.e, and v.x then has more than 53 bits. A v.x below 2^22 is
\* first shifted by a whole limb.
RECURSIVE f64_round(_, _)
f64_round(neg, v) ==
    IF v.x.hi = 0 /\ v.x.lo < 4194304
    THEN f64_round(neg, [x |-> [hi |-> v.x.lo, lo |-> 0], e |-> v.e - 30,
                         sticky |-> v.sticky])
    ELSE IF v.x.hi < 4096
    THEN f64_round(neg, [x |-> [hi |-> v.x.hi * 1024 + v.x.lo \div 1048576,
                                lo |-> (v.x.lo % 1048576) * 1024],
                         e |-> v.e - 10, sticky |-> v.sticky])
    ELSE IF wide_lt(v.x, Two52)
    THEN f64_round(neg, [x |-> wide_double(v.x, 0), e |-> v.e - 1,
                         sticky |-> v.sticky])
    ELSE IF wide_lt(v.x, Two53)
    THEN f64_finite(neg, v.x, v.e)
    ELSE IF wide_le(Two54, v.x)
    THEN f64_round(neg, [x |-> wide_half(v.x), e |-> v.e + 1,
                         sticky |-> v.sticky \/ wide_odd(v.x)])
    ELSE LET sig == wide_half(v.x)
             up == wide_odd(v.x) /\ (v.sticky \/ wide_odd(sig))
             rounded == IF up THEN wide_inc(sig) ELSE sig
         IN  IF rounded = Two53
             THEN f64_finite(neg, Two52, v.e + 2)
             ELSE f64_finite(neg, rounded, v.e + 1)

\* `n as f64` for a u64 n
f64_from_u64(n) ==
    IF wide_is_zero(n)
    THEN f64_zero(FALSE)
    ELSE f64_round(FALSE, [x |-> n, e |-> 0, sticky |-> FALSE])

\* the f64 literal of an integer
f64_from_int(n) ==
    IF n = 0
    THEN f64_zero(FALSE)
    ELSE f64_round(n < 0, [x |-> u64(IF n < 0 THEN -n ELSE n), e |-> 0,
                           sticky |-> FALSE])

\* k more steps of the long division by d, s.q and s.r being the quotient and
\* the remainder so far; it stops when nothing remains, and the k of the
\* result says how many steps were left, each of which would double s.q
RECURSIVE divide_bits(_, _, _)
divide_bits(s, d, k) ==
    IF k = 0 \/ wide_is_zero(s.r)
    THEN [q |-> s.q, r |-> s.r, k |-> k]
    ELSE LET r2 == wide_double(s.r, 0)
         IN  IF wide_le(d, r2)
             THEN divide_bits([q |-> wide_double(s.q, 1),
                               r |-> wide_sub(r2, d)], d, k - 1)
             ELSE divide_bits([q |-> wide_double(s.q, 0), r |-> r2], d, k - 1)

\* a / b
f64_div(a, b) ==
    IF a.class = "nan" \/ b.class = "nan"
    THEN f64_nan
    ELSE IF a.class = "inf"
    THEN IF b.class = "inf" THEN f64_nan ELSE f64_inf(a.neg # b.neg)
    ELSE IF b.class = "inf"
    THEN f64_zero(a.neg # b.neg)
    ELSE IF b.class = "zero"
    THEN IF a.class = "zero" THEN f64_nan ELSE f64_inf(a.neg # b.neg)
    ELSE IF a.class = "zero"
    THEN f64_zero(a.neg # b.neg)
    ELSE LET ge == wide_le(b.sig, a.sig)
             n == IF ge THEN a.sig ELSE wide_double(a.sig, 0)
             e == a.exp - b.exp - (IF ge THEN 0 ELSE 1)
             qr == divide_bits([q |-> u64(1), r |-> wide_sub(n, b.sig)],
                               b.sig, 53)
         IN  f64_round(a.neg # b.neg,
                       [x |-> qr.q, e |-> e - 53 + qr.k,
                        sticky |-> ~wide_is_zero(qr.r)])

\* x shifted right by d bits, the last bit set when a set bit was shifted out
RECURSIVE shift_right_sticky(_, _)
shift_right_sticky(x, d) ==
    IF d = 0 \/ wide_is_zero(x)
    THEN x
    ELSE LET h == wide_half(x)
         IN  shift_right_sticky(
                 IF wide_odd(x) /\ ~wide_odd(h) THEN wide_inc(h) ELSE h,
                 d - 1)

\* a - b for a that is not negative and a finite b > 0, as in `quotient - 100.0`
f64_sub(a, b) ==
    IF a.class = "nan"
    THEN f64_nan
    ELSE IF a.class = "inf"
    THEN a
    ELSE IF a.class = "zero"
    THEN [b EXCEPT !.neg = TRUE]
    ELSE IF a.exp = b.exp /\ a.sig = b.sig
    THEN f64_zero(FALSE)
    ELSE LET a_larger ==
                 a.exp > b.exp \/ (a.exp = b.exp /\ wide_lt(b.sig, a.sig))
             l == IF a_larger THEN a ELSE b
             s == IF a_larger THEN b ELSE a
             times8(x) == wide_double(wide_double(wide_double(x, 0), 0), 0)
             diff == wide_sub(times8(l.sig),
                              shift_right_sticky(times8(s.sig), l.exp - s.exp))
         IN  f64_round(~a_larger, [x |-> wide_half(diff), e |-> l.exp - 2,
                                   sticky |-> wide_odd(diff)])

f64_abs(a) == IF a.class = "nan" THEN a ELSE [a EXCEPT !.neg = FALSE]

\* a <= b for a and b that are not negative; false when one of them is NaN
f64_le(a, b) ==
    IF a.class = "nan" \/ b.class = "nan"
    THEN FALSE
    ELSE IF a.class = "zero"
    THEN TRUE
    ELSE IF b.class = "zero"
    THEN FALSE
    ELSE IF b.class = "inf"
    THEN TRUE
    ELSE IF a.class = "inf"
    THEN FALSE
    ELSE a.exp < b.exp \/ (a.exp = b.exp /\ wide_le(a.sig, b.sig))

\* a < 0.0
f64_negative(a) == a.class \in {"finite", "inf"} /\ a.neg

\* --------------------------------------------- SpecAnalyze: Benchmarks::analyze
\* The JSON text of a Summary is kept as the tree of its objects and arrays: a
\* string is written between quotes and read back as it was, and an unsigned
\* integer is written as its decimal digits. created_at and the _sec, _str and
\* std_dev fields take no part in analyze and are left out.
RECURSIVE u64_to_json(_)
u64_to_json(n) ==
    IF n < 10 THEN <<n>> ELSE Append(u64_to_json(n \div 10), n % 10)

RECURSIVE u64_from_json(_)
u64_from_json(digits) ==
    IF Len(digits) = 1
    THEN digits[1]
    ELSE 10 * u64_from_json(SubSeq(digits, 1, Len(digits) - 1))
           + digits[Len(digits)]

RunSummary_to_json(r) ==
    [name |-> r.name,
     ramp_up |-> u64_to_json(r.ramp_up), repeat |-> u64_to_json(r.repeat),
     min_nanos |-> u64_to_json(r.min_nanos),
     max_nanos |-> u64_to_json(r.max_nanos),
     median_nanos |-> u64_to_json(r.median_nanos)]

RunSummary_from_json(j) ==
    RunSummary_new(j.name, u64_from_json(j.ramp_up), u64_from_json(j.repeat),
                   u64_from_json(j.min_nanos), u64_from_json(j.max_nanos),
                   u64_from_json(j.median_nanos))

SeriesSummary_to_json(ss) ==
    [name |-> ss.name, config |-> ss.config,
     runs |-> [k \in DOMAIN ss.runs |->
                  <<ss.runs[k][1], RunSummary_to_json(ss.runs[k][2])>>]]

SeriesSummary_from_json(j) ==
    [name |-> j.name, config |-> j.config,
     runs |-> [k \in DOMAIN j.runs |->
                  <<j.runs[k][1], RunSummary_from_json(j.runs[k][2])>>]]

\* a JSON text: the serialisation of a Summary, or a text that is none
Summary_to_json(summary) ==
    [wellformed |-> TRUE,
     value |-> [name |-> summary.name,
                series |-> [n \in DOMAIN summary.series |->
                               SeriesSummary_to_json(summary.series[n])]]]
Malformed == [wellformed |-> FALSE]

\* serde_json::from_str::<Summary>
Summary_from_str(string) ==
    IF string.wellformed
    THEN Ok([name |-> string.value.name,
             series |-> [n \in DOMAIN string.value.series |->
                            SeriesSummary_from_json(string.value.series[n])]])
    ELSE Err("serde_json::Error")

Benchmarks_summary_as_json(s) == Summary_to_json(Benchmarks_summary(s))

\* the literal 100.0
f64_100 == f64_from_int(100)

\* the change with current and previous exchanged
change_of_swapped(current, previous) ==
    f64_sub(f64_div(f64_from_u64(previous),
                    f64_div(f64_from_u64(current), f64_100)),
            f64_100)

\* (current as f64 / (previous as f64 / 100.0)) - 100.0
change_of(current, previous) ==
    f64_sub(f64_div(f64_from_u64(current),
                    f64_div(f64_from_u64(previous), f64_100)),
            f64_100)

\* compare_median that takes the threshold with its sign
compare_median_signed_threshold(point, current, previous, threshold) ==
    LET change == change_of(current, previous)
    IN  [kind |-> IF \/ current = previous
                     \/ /\ ~f64_negative(threshold)
                        /\ f64_le(f64_abs(change), threshold)
                  THEN "Equal"
                  ELSE IF f64_negative(change) THEN "Less"
                  ELSE "Greater",
         point |-> point, previous |-> previous, current |-> current,
         change |-> change]

\* compare_median without the test current == previous
compare_median_by_change_only(point, current, previous, threshold) ==
    LET change == change_of(current, previous)
    IN  [kind |-> IF f64_le(f64_abs(change), f64_abs(threshold))
                  THEN "Equal"
                  ELSE IF f64_negative(change) THEN "Less"
                  ELSE "Greater",
         point |-> point, previous |-> previous, current |-> current,
         change |-> change]

\* current and previous are u64, threshold is an f64
compare_median(point, current, previous, threshold) ==
    LET change == change_of(current, previous)
    IN  [kind |-> IF \/ current = previous
                     \/ f64_le(f64_abs(change), f64_abs(threshold))
                  THEN "Equal"
                  ELSE IF f64_negative(change) THEN "Less"
                  ELSE "Greater",
         point |-> point, previous |-> previous, current |-> current,
         change |-> change]

\* the points of a series, in order
points_of(series) == [k \in 1..Len(series) |-> series[k][1]]

\* an emptiness test that never finds an empty series
is_empty_never(points) == FALSE

is_empty(points) == Len(points) = 0

\* a comparison of the lengths of the two lists only
points_differ_in_length(current_points, previous_points) ==
    Len(current_points) # Len(previous_points)

\* the test that finds any two lists of points different
points_differ_always(current_points, previous_points) == TRUE

points_differ(current_points, previous_points) ==
    current_points # previous_points

\* the comparisons of the first k points, keyed by point
RECURSIVE compare_series_loop(_, _, _, _)
compare_series_loop(current_series, previous_series, threshold, k) ==
    IF k = 0
    THEN HashMap_new
    ELSE HashMap_insert(
             compare_series_loop(current_series, previous_series, threshold,
                                 k - 1),
             current_series[k][1],
             compare_median(current_series[k][1],
                            u64(current_series[k][2].median_nanos),
                            u64(previous_series[k][2].median_nanos),
                            threshold))

compare_series(current_series, previous_series, threshold) ==
    LET current_points == points_of(current_series)
        previous_points == points_of(previous_series)
    IN  IF is_empty(current_points) \/ is_empty(previous_points)
        THEN Err("Can compare only non empty series")
        ELSE IF points_differ(current_points, previous_points)
        THEN Err("Can compare series with identical workload points only")
        ELSE Ok(compare_series_loop(current_series, previous_series,
                                    threshold, Len(current_series)))

AnalysisResult_new(name) ==
    [name |-> name, new_series |-> {}, equal_series |-> HashMap_new,
     divergent_series |-> HashMap_new]

AnalysisResult_add_new(ar, name) ==
    [ar EXCEPT !.new_series = @ \cup {name}]

\* add that also records the name as a new series
AnalysisResult_add_as_new(ar, name, comparisons) ==
    [ar EXCEPT !.new_series = @ \cup {name},
               !.divergent_series = HashMap_insert(@, name, comparisons)]

AnalysisResult_add(ar, name, comparisons) ==
    LET equal == \A p \in DOMAIN comparisons : comparisons[p].kind = "Equal"
    IN  IF equal
        THEN [ar EXCEPT !.equal_series = HashMap_insert(@, name, comparisons)]
        ELSE [ar EXCEPT !.divergent_series =
                            HashMap_insert(@, name, comparisons)]

\* the summary that stands for no previous result, taken from the current one
prev_of_none_current(s) == Benchmarks_summary(s)

\* the summary that stands for no previous result
prev_of_none(s) == Summary_new(s.name)

\* a name test that accepts every pair of summaries
names_differ_never(current_summary, prev_summary) == FALSE

names_differ(current_summary, prev_summary) ==
    current_summary.name # prev_summary.name

\* the loop of analyze that leaves out a series that cannot be compared
RECURSIVE analyze_from_skipping(_, _, _, _, _, _)
analyze_from_skipping(ar, current_summary, prev_summary, threshold, order, k) ==
    IF k > Len(order)
    THEN Ok(ar)
    ELSE LET name == order[k]
             comparisons ==
                 compare_series(current_summary.series[name].runs,
                                prev_summary.series[name].runs, threshold)
         IN  analyze_from_skipping(
                 IF name \notin DOMAIN prev_summary.series
                 THEN AnalysisResult_add_new(ar, name)
                 ELSE IF comparisons.tag = "Err"
                 THEN ar
                 ELSE AnalysisResult_add(ar, name, comparisons.value),
                 current_summary, prev_summary, threshold, order, k + 1)

\* the loop of analyze over the series of the current summary, from the k-th
\* name of the iteration order on
RECURSIVE analyze_from(_, _, _, _, _, _)
analyze_from(ar, current_summary, prev_summary, threshold, order, k) ==
    IF k > Len(order)
    THEN Ok(ar)
    ELSE LET name == order[k]
         IN  IF name \notin DOMAIN prev_summary.series
             THEN analyze_from(AnalysisResult_add_new(ar, name),
                               current_summary, prev_summary, threshold,
                               order, k + 1)
             ELSE LET comparisons ==
                          compare_series(current_summary.series[name].runs,
                                         prev_summary.series[name].runs,
                                         threshold)
                  IN  IF comparisons.tag = "Err"
                      THEN comparisons
                      ELSE analyze_from(
                               AnalysisResult_add(ar, name,
                                                  comparisons.value),
                               current_summary, prev_summary, threshold,
                               order, k + 1)

\* Benchmarks::analyze; order is the order in which the HashMap of the
\* current summary yields its keys
Benchmarks_analyze(s, prev_result_string_opt, threshold, order) ==
    LET current_summary == Benchmarks_summary(s)
        parsed == IF prev_result_string_opt.tag = "None"
                  THEN Ok(prev_of_none(s))
                  ELSE Summary_from_str(prev_result_string_opt.value)
    IN  IF parsed.tag = "Err"
        THEN Err(Error_from(parsed.value))
        ELSE IF names_differ(current_summary, parsed.value)
        THEN Err("Comparing differently named benchmarks.rs")
        ELSE analyze_from(AnalysisResult_new(current_summary.name),
                          current_summary, parsed.value, threshold, order, 1)

\* the orders in which a HashMap with the keys S can yield them
Orders(S) ==
    {f \in [1..Cardinality(S) -> S] : \A x \in S : \E k \in DOMAIN f : f[k] = x}

SuiteNames == {"S", "T"}
Thresholds == {-100, 0}
PrevWork == {<<>>, <<1>>, <<2>>, <<2, 1>>, <<1, 2>>, <<1, 1>>}
\* the work lists of the current suite: those of SpecSuite and one that names
\* a workload point twice
AnalyzeWork == SuiteWork \cup {<<1, 1>>}

\* the suites of S, and those with one more benchmark `name` of some work
SuitesWith(S, name, works) ==
    S \cup {Benchmarks_add(s, name, 0, w, 1, 1).suite : s \in S, w \in works}

\* the suites of S after one call of run
SuitesRun(S) ==
    UNION {{Benchmarks_run(s, os).suite :
               os \in OutcomeSeqs(s.benchmarks, FALSE)} : s \in S}

\* the suites of S after one call of run that returned Ok, the points of a
\* benchmark taking the same time
SuitesRunOk(S) ==
    UNION {{Benchmarks_run(s, os).suite :
               os \in {o \in OutcomeSeqs(s.benchmarks, TRUE) :
                          Benchmarks_run(s, o).result.tag = "Ok"}} : s \in S}

\* the suites analyze is called on, before their first run
CurrentSuites ==
    SuitesWith(SuitesWith({Benchmarks_new("S")}, "a", AnalyzeWork),
               "b", {<<1>>})

\* the suites whose summary is handed to analyze as the previous result
PrevSuites ==
    UNION {SuitesRunOk(
               SuitesWith(
                   SuitesWith(
                       SuitesWith({Benchmarks_new(n)}, "a",
                                  IF n = "S" THEN PrevWork ELSE {<<1>>}),
                       "b", {<<1>>}),
                   "c", {<<>>})) : n \in SuiteNames}

\* where the previous result of a call comes from: there is none, a text
\* that is no JSON of a summary, or summary_as_json of a suite, of which the
\* benchmark definitions are kept
PrevSources ==
    {[kind |-> "none"], [kind |-> "malformed"]}
        \cup {[kind |-> "suite", suite |-> s] : s \in PrevSuites}

prev_result_string_opt(source) ==
    IF source.kind = "none" THEN None
    ELSE IF source.kind = "malformed" THEN Some(Malformed)
    ELSE Some(Benchmarks_summary_as_json(source.suite))

AnalyzeInit ==
    /\ now = 0
    /\ stop_watch = StopWatch_new(0)
    /\ op = "new"
    /\ ret = 0
    /\ ran = 0
    /\ idle = 0
    /\ wreset = FALSE
    /\ text = ""
    /\ IdleRun
    /\ call = [op |-> "new"]
    /\ \E s \in CurrentSuites :
          \/ suite = s /\ runs_done = 0
          \/ \E r \in SuitesRun({s}) : suite = r /\ runs_done = 1

\* analyze that keeps the series of the previous summary as those of the suite
SuiteAnalyze_storing ==
    /\ call.op = "new"
    /\ \E source \in PrevSources \cup {[kind |-> "suite", suite |-> suite]},
          threshold \in Thresholds, order \in Orders(DOMAIN suite.summaries) :
          LET prev == prev_result_string_opt(source)
              parsed == IF prev.tag = "Some"
                        THEN Summary_from_str(prev.value)
                        ELSE Err("None")
          IN  /\ call' = [op |-> "analyze", prev |-> prev,
                          registered |-> IF source.kind = "suite"
                                         THEN source.suite.benchmarks
                                         ELSE <<>>,
                          threshold |-> threshold,
                          result |-> Benchmarks_analyze(
                                         suite, prev,
                                         f64_from_int(threshold), order)]
              /\ suite' = IF parsed.tag = "Ok"
                          THEN [suite EXCEPT !.summaries = parsed.value.series]
                          ELSE suite
    /\ UNCHANGED <<runs_done, text>>
    /\ UNCHANGED timerVars
    /\ UNCHANGED runVars

\* analyze takes &self and changes nothing, so a second call would repeat the
\* first: one call in a behaviour
SuiteAnalyze ==
    /\ call.op = "new"
    /\ \E source \in PrevSources \cup {[kind |-> "suite", suite |-> suite]},
          threshold \in Thresholds, order \in Orders(DOMAIN suite.summaries) :
          LET prev == prev_result_string_opt(source)
          IN  call' = [op |-> "analyze", prev |-> prev,
                       registered |-> IF source.kind = "suite"
                                      THEN source.suite.benchmarks
                                      ELSE <<>>,
                       threshold |-> threshold,
                       result |-> Benchmarks_analyze(suite, prev,
                                                     f64_from_int(threshold),
                                                     order)]
    /\ UNCHANGED <<suite, runs_done, text>>
    /\ UNCHANGED timerVars
    /\ UNCHANGED runVars

AnalyzeNext == SuiteAnalyze

SpecAnalyze == AnalyzeInit /\ [][AnalyzeNext]_vars

\* ------------------------------------- SpecCompare: compare_median alone
\* medians 0..MaxMedian, the medians of the documented examples, a pair whose
\* quotient is not a representable f64, and two neighbours at 2^53
MaxMedian == 3
CompareMedians ==
    {u64(n) : n \in 0..MaxMedian}
        \cup {u64(n) : n \in {7, 14, 60, 100, 104, 150}}
        \cup {Two53, wide_inc(Two53)}
CompareThresholds == {-10, 0, 5, 10, 50}

CompareInit ==
    /\ now = 0
    /\ stop_watch = StopWatch_new(0)
    /\ op = "new"
    /\ ret = 0
    /\ ran = 0
    /\ idle = 0
    /\ wreset = FALSE
    /\ text = ""
    /\ IdleRun
    /\ suite = None
    /\ runs_done = 0
    /\ \E point \in {to_string(w) : w \in Points},
          current \in CompareMedians, previous \in CompareMedians,
          threshold \in CompareThresholds :
          call = [op |-> "new", point |-> point, current |-> current,
                  previous |-> previous, threshold |-> threshold]

\* one call of compare_median on the inputs drawn by CompareInit
CompareMedian ==
    /\ call.op = "new"
    /\ call' = [op |-> "compare_median", point |-> call.point,
                current |-> call.current, previous |-> call.previous,
                threshold |-> call.threshold,
                result |-> compare_median(call.point, call.current,
                                          call.previous,
                                          f64_from_int(call.threshold))]
    /\ UNCHANGED <<suite, runs_done, text>>
    /\ UNCHANGED timerVars
    /\ UNCHANGED runVars

CompareNext == CompareMedian

SpecCompare == CompareInit /\ [][CompareNext]_vars

\* ---------------------- SpecRunAll: Benchmarks::run, invocation by invocation
\* benchmarks of a suite
MaxBenchmarks == 2
RunAllNames == <<"a", "b", "c", "d">>
RunAllConfigs ==
    {[work |-> <<>>, repeat |-> 1, ramp_up |-> 1],
     [work |-> <<1>>, repeat |-> 1, ramp_up |-> 1],
     [work |-> <<2, 1>>, repeat |-> 2, ramp_up |-> 0]}

\* the suites of k benchmarks that Benchmarks::add builds
RECURSIVE SuitesOf(_)
SuitesOf(k) ==
    IF k = 0
    THEN {Benchmarks_new("S")}
    ELSE {Benchmarks_add(s, RunAllNames[k], 0, c.work, c.repeat,
                         c.ramp_up).suite :
             s \in SuitesOf(k - 1), c \in RunAllConfigs}

RunAllInit ==
    /\ now = 0
    /\ stop_watch = StopWatch_new(0)
    /\ op = "new"
    /\ ret = 0
    /\ ran = 0
    /\ idle = 0
    /\ wreset = FALSE
    /\ text = ""
    /\ IdleRun
    /\ suite \in UNION {SuitesOf(k) : k \in 0..MaxBenchmarks}
    /\ call = [op |-> "new"]
    /\ runs_done = 0

\* Benchmarks::run is called: line 54
RunAll_enter ==
    /\ call.op = "new"
    /\ call' = [op |-> "running", k |-> 1, invocations |-> 0]
    /\ UNCHANGED <<text, suite, runs_done>>
    /\ UNCHANGED timerVars
    /\ UNCHANGED runVars

\* `for benchmark in &self.benchmarks` and the call of benchmark.run(), or
\* Ok(()) after the last benchmark: lines 55-59
RunAll_next_benchmark ==
    /\ call.op = "running"
    /\ pc = "timer"
    /\ IF call.k <= Len(suite.benchmarks)
       THEN /\ benchmark' = suite.benchmarks[call.k]
            /\ pc' = "idle"
            /\ UNCHANGED call
       ELSE /\ call' = [op |-> "run", invocations |-> call.invocations,
                        result |-> Ok(<<>>)]
            /\ UNCHANGED <<benchmark, pc>>
    /\ UNCHANGED <<wi, i, durations, error, series_summary, result, calls,
                   failed>>
    /\ UNCHANGED <<text, suite, runs_done>>
    /\ UNCHANGED timerVars

\* benchmark.run() has returned: `?` returns its error, and its series is
\* inserted under the name of the benchmark: lines 56-57
RunAll_benchmark_done ==
    /\ call.op = "running"
    /\ pc = "done"
    /\ IF result.tag = "Ok"
       THEN /\ suite' = [suite EXCEPT !.summaries =
                            HashMap_insert(@, summaries_key(benchmark),
                                           result.value)]
            /\ call' = [call EXCEPT !.k = @ + 1,
                                    !.invocations = @ + Len(calls)]
       ELSE /\ call' = [op |-> "run",
                        invocations |-> call.invocations + Len(calls),
                        result |-> result]
            /\ UNCHANGED suite
    /\ pc' = "timer"
    /\ wi' = 0
    /\ i' = 0
    /\ durations' = <<>>
    /\ error' = None
    /\ series_summary' = None
    /\ result' = None
    /\ calls' = <<>>
    /\ failed' = None
    /\ UNCHANGED <<benchmark, text, runs_done>>
    /\ UNCHANGED timerVars

\* a step of the executor, which goes on whenever it can
RunAllExecutor ==
    \/ RunAll_enter
    \/ RunAll_next_benchmark
    \/ RunAll_benchmark_done
    \/ Run_enter
    \/ Run_next_point
    \/ Run_ramp_up
    \/ Run_measure
    \/ Run_match_error
    \/ Run_return

\* a step of the workload function, which may never return; what it does
\* with its stop watch before it returns is left to Spec
RunAllWorkload ==
    \/ Workload_tick
    \/ Run_ramp_ok
    \/ Run_ramp_err
    \/ Run_measured_ok
    \/ Run_measured_err

RunAllNext == RunAllExecutor \/ RunAllWorkload

SpecRunAll ==
    RunAllInit /\ [][RunAllNext]_vars /\ WF_vars(RunAllExecutor)

\* ------------------------------- SpecStats: the RunSummary of one point
\* the durations of the measured trials of one workload point, in nanoseconds
MaxNanos == 3
MaxSamples == 4
Samples == SeqsUpTo(0..MaxNanos, MaxSamples) \ {<<>>}

StatsInit ==
    /\ now = 0
    /\ stop_watch = StopWatch_new(0)
    /\ op = "new"
    /\ ret = 0
    /\ ran = 0
    /\ idle = 0
    /\ wreset = FALSE
    /\ text = ""
    /\ IdleRun
    /\ suite = None
    /\ runs_done = 0
    /\ \E nanos \in Samples : call = [op |-> "new", nanos |-> nanos]

\* lines 73-88 on the durations drawn by StatsInit, for a benchmark that
\* repeats each point as many times as there are durations
Summarise ==
    /\ call.op = "new"
    /\ call' = [op |-> "summarise", nanos |-> call.nanos,
                result |-> RunSummary_of(
                               Benchmark_new("b", 0, <<1>>,
                                             Len(call.nanos), 1),
                               call.nanos)]
    /\ UNCHANGED <<suite, runs_done, text>>
    /\ UNCHANGED timerVars
    /\ UNCHANGED runVars

StatsNext == Summarise

SpecStats == StatsInit /\ [][StatsNext]_vars

\* ----------------------------------------------------- properties of Spec
\* the invocations a run without error makes for workload points 1..k:
\* ramp_up unmeasured then repeat measured ones per point, in declared order
RECURSIVE ExpectedCalls(_, _)
ExpectedCalls(b, k) ==
    IF k = 0
    THEN <<>>
    ELSE ExpectedCalls(b, k - 1)
         \o [n \in 1..b.ramp_up |->
               [index |-> k, point |-> b.work[k], measured |-> FALSE]]
         \o [n \in 1..b.repeat |->
               [index |-> k, point |-> b.work[k], measured |-> TRUE]]

IsPrefix(s, t) == Len(s) <= Len(t) /\ SubSeq(t, 1, Len(s)) = s

\* C1: once a measured trial has returned an error the workload function is
\* not invoked again, run is on its way out and returns that error, never a
\* SeriesSummary.
C1_MeasuredErrorAbortsRun ==
    (failed # None /\ failed.value.measured) =>
        /\ Len(calls) = failed.value.at
        /\ pc \in {"match_error", "return", "done"}
        /\ result.tag # "Ok"
        /\ pc = "done" => result = Err(Error_from(failed.value.e))

\* run returned the error of a measured trial on the second workload point,
\* the first point being already in the series
C1_Witness ==
    /\ pc = "done"
    /\ failed # None /\ failed.value.measured
    /\ result.tag = "Err"
    /\ Len(series_summary.runs) = 1
    /\ Len(benchmark.work) = 2
    /\ calls[Len(calls)].index = 2
    /\ Len(durations) = 1 /\ benchmark.repeat = 2

\* C2: a run in which no invocation failed returns a SeriesSummary with one
\* entry per workload point, entry k carrying the text of the k-th declared
\* point.
C2_OneEntryPerPointInOrder ==
    (pc = "done" /\ failed = None) =>
        /\ result.tag = "Ok"
        /\ Len(result.value.runs) = Len(benchmark.work)
        /\ \A k \in 1..Len(benchmark.work) :
              result.value.runs[k][1] = to_string(benchmark.work[k])

\* a successful run over two points declared in descending order
C2_Witness ==
    /\ pc = "done" /\ failed = None
    /\ benchmark.work = <<2, 1>>
    /\ benchmark.ramp_up = 1 /\ benchmark.repeat = 2
    /\ result.tag = "Ok"
    /\ result.value.runs[1][1] = "2"

\* C3: the invocations made so far are always a prefix of: for each point in
\* declared order, ramp_up unmeasured invocations then repeat measured ones;
\* a run that returns Ok has made all of them, ramp_up + repeat per point.
C3_InvocationOrder ==
    /\ IsPrefix(calls, ExpectedCalls(benchmark, Len(benchmark.work)))
    /\ (pc = "done" /\ result.tag = "Ok") =>
          /\ calls = ExpectedCalls(benchmark, Len(benchmark.work))
          /\ \A k \in 1..Len(benchmark.work) :
                Cardinality({n \in 1..Len(calls) : calls[n].index = k})
                    = benchmark.ramp_up + benchmark.repeat

\* a successful run of 2 points with 1 ramp-up and 2 measured invocations each
C3_Witness ==
    /\ pc = "done" /\ result.tag = "Ok"
    /\ Len(benchmark.work) = 2
    /\ benchmark.ramp_up = 1 /\ benchmark.repeat = 2
    /\ Len(calls) = 6

\* C4: the duration recorded for a measured trial whose workload did not
\* reset the timer is the number of ticks during which the timer was running
\* between the executor's start and stop, however the workload paused and
\* resumed.
C4_RecordedIsRunningTime ==
    (pc = "measure" /\ i > 0 /\ ~wreset) =>
        /\ Len(durations) = i
        /\ durations[i] = ran

\* a trial entered at instant 0 that was paused over the first tick, resumed
\* at instant 1 and ran over the second tick
C4_Witness ==
    /\ pc = "measure" /\ i > 0 /\ ~wreset
    /\ Len(calls) = 1
    /\ ran = 1 /\ idle = 1
    /\ stop_watch.checkpoint = 1 /\ now = 2
    /\ durations[i] = 1

\* C26: in every SeriesSummary that a run returns, the identities of the
\* workload points are pairwise different.
C26_PointsDistinct ==
    (pc = "done" /\ result.tag = "Ok") =>
        \A j, k \in DOMAIN result.value.runs :
            j # k => result.value.runs[j][1] # result.value.runs[k][1]

\* the work list (1, 1) gives a series with the identity "1" twice
C26_RepeatedPoint ==
    /\ pc = "done" /\ result.tag = "Ok"
    /\ benchmark.work = <<1, 1>>
    /\ [k \in DOMAIN result.value.runs |-> result.value.runs[k][1]] = <<"1", "1">>

C30_NamedByPoint ==
    (pc = "done" /\ result.tag = "Ok") =>
        \A k \in DOMAIN result.value.runs :
            /\ result.value.runs[k][2].name = result.value.runs[k][1]
            /\ result.value.runs[k][2].ramp_up = benchmark.ramp_up
            /\ result.value.runs[k][2].repeat = benchmark.repeat

\* the RunSummary of the point "1" has the name of the benchmark
C30_NamedByBenchmark ==
    /\ pc = "done" /\ result.tag = "Ok"
    /\ Len(result.value.runs) = 1
    /\ result.value.runs[1][1] = "1"
    /\ result.value.runs[1][2].name = benchmark.name
    /\ benchmark.name = "b"

\* C36: the workload function is entered with a new timer that has
\* accumulated nothing, running in a measured trial and stopped in a ramp-up
\* invocation, which the executor does not stop afterwards either; the
\* duration recorded for a trial is no longer than the time between the entry
\* and the return of that trial.
C36_FreshTimerEachInvocation ==
    [][/\ Len(calls') = Len(calls) + 1 =>
             /\ stop_watch'.accumulated = 0
             /\ stop_watch'.checkpoint = now
             /\ stop_watch'.is_stopped = ~calls'[Len(calls')].measured
       /\ (pc = "ramp_call" /\ pc' # "ramp_call") => stop_watch' = stop_watch
       /\ Len(durations') = Len(durations) + 1 =>
             durations'[Len(durations')] <= ran + idle]_vars

\* the second measured trial of a point is entered at instant 1 with a timer
\* that is running and has accumulated nothing, the first trial having
\* recorded one tick
C36_Witness ==
    /\ pc = "measure_call"
    /\ ran = 0 /\ idle = 0
    /\ now = 1
    /\ durations = <<1>>
    /\ stop_watch = [accumulated |-> 0, checkpoint |-> 1, is_stopped |-> FALSE]
    /\ calls[Len(calls)].measured

\* the ramp-up invocation of the second point is entered at instant 1 with a
\* stopped timer that has accumulated nothing
C36_RampUpStopped ==
    /\ pc = "ramp_call"
    /\ ran = 0 /\ idle = 0
    /\ now = 1
    /\ calls[Len(calls)].index = 2
    /\ stop_watch = [accumulated |-> 0, checkpoint |-> 1, is_stopped |-> TRUE]

\* ------------------------------------------------ properties of SpecTimer
\* the interval since the last start, zero while stopped
InFlight == IF stop_watch.is_stopped THEN 0 ELSE elapsed(stop_watch.checkpoint, now)

\* C5: while the timer is running accumulated() returns the stored
\* accumulated duration plus the in-flight interval, while stopped the stored
\* accumulated duration.  (Violated: the code returns the stored field only.)
C5_AccumulatedIncludesInFlight ==
    op = "accumulated" => ret = stop_watch.accumulated + InFlight

\* C6: on a timer that was never reset, accumulated() read while stopped is
\* the sum of the completed running intervals (the ticks that passed while
\* running): zero after construction, a tick that passes while stopped adds
\* nothing, and completing a running interval of positive length strictly
\* increases it.
C6_AccumulatedIsSumOfIntervals ==
    /\ [](op = "new" => StopWatch_accumulated(stop_watch) = 0)
    /\ []((op = "accumulated" /\ stop_watch.is_stopped /\ ~wreset) => ret = ran)
    /\ []((stop_watch.is_stopped /\ ~wreset) => StopWatch_accumulated(stop_watch) = ran)
    /\ [][(op' = "tick" /\ stop_watch.is_stopped)
            => StopWatch_accumulated(stop_watch') = StopWatch_accumulated(stop_watch)]_vars
    /\ [][(op' \in {"pause", "stop"} /\ ~stop_watch.is_stopped
             /\ now > stop_watch.checkpoint)
            => StopWatch_accumulated(stop_watch') > StopWatch_accumulated(stop_watch)]_vars

\* two completed running intervals of one tick each, one idle tick between
C6_Witness ==
    /\ op = "accumulated" /\ stop_watch.is_stopped /\ ~wreset
    /\ now = 4 /\ stop_watch.checkpoint = 3
    /\ ran = 2 /\ idle = 1 /\ ret = 2

\* C7: start/resume on a running timer changes nothing; on a stopped timer
\* it sets the checkpoint to now, makes the timer running and keeps the
\* accumulated duration.  Hence, on a timer never reset, stored accumulated
\* plus the in-flight interval is all the time the timer has been running.
C7_StartIdempotentWhileRunning ==
    /\ [][op' \in {"start", "resume"} =>
            IF ~stop_watch.is_stopped
            THEN stop_watch' = stop_watch
            ELSE stop_watch' = [accumulated |-> stop_watch.accumulated,
                                checkpoint |-> now,
                                is_stopped |-> FALSE]]_vars
    /\ [](~wreset => stop_watch.accumulated + InFlight = ran)

\* start/resume was called on a timer that had been running for two ticks
C7_Witness ==
    /\ op \in {"start", "resume"}
    /\ ~stop_watch.is_stopped
    /\ elapsed(stop_watch.checkpoint, now) = 2
    /\ ran >= 2

\* C8: stop/pause on a running timer adds exactly the interval since the
\* last start to the accumulated duration and stops the timer; on a stopped
\* timer it changes nothing.
C8_StopAddsElapsed ==
    [][op' \in {"stop", "pause"} =>
        IF ~stop_watch.is_stopped
        THEN stop_watch' = [accumulated |-> stop_watch.accumulated
                                            + elapsed(stop_watch.checkpoint, now),
                            checkpoint |-> stop_watch.checkpoint,
                            is_stopped |-> TRUE]
        ELSE stop_watch' = stop_watch]_vars

\* a stop/pause that closed a second running interval
C8_Witness ==
    /\ op \in {"stop", "pause"}
    /\ stop_watch.is_stopped
    /\ stop_watch.accumulated = 3
    /\ elapsed(stop_watch.checkpoint, now) = 1
    /\ idle >= 1

\* C9: reset, in any timer state, zeroes the accumulated duration and leaves
\* the timer stopped (checkpoint now); a following stop/pause adds nothing.
C9_ResetZeroesAndStops ==
    /\ [](op = "reset" => /\ stop_watch.accumulated = 0
                          /\ stop_watch.is_stopped
                          /\ stop_watch.checkpoint = now)
    /\ [][(op \in {"reset", "tick"} /\ stop_watch.is_stopped
             /\ stop_watch.accumulated = 0 /\ op' \in {"stop", "pause", "tick"})
            => stop_watch'.accumulated = 0 /\ stop_watch'.is_stopped]_vars

\* reset of a timer that had run for two ticks, then time passed and stop
C9_Witness ==
    /\ wreset /\ ran >= 2 /\ idle >= 1
    /\ op \in {"stop", "pause"}
    /\ stop_watch.accumulated = 0
    /\ stop_watch.is_stopped

\* C10 as stated: the accumulated duration is never negative and no timer
\* operation takes it to a smaller value.  (Violated by reset.)
C10_AccumulatedNeverDecreases ==
    /\ [](stop_watch.accumulated >= 0)
    /\ [][stop_watch'.accumulated >= stop_watch.accumulated]_vars

\* C10 amended: the accumulated duration is never negative, and no timer
\* operation other than reset takes it to a smaller value; reset sets it to
\* zero.
C10_AccumulatedDecreasesOnlyOnReset ==
    /\ [](stop_watch.accumulated >= 0)
    /\ [][op' # "reset" => stop_watch'.accumulated >= stop_watch.accumulated]_vars
    /\ [][op' = "reset" => stop_watch'.accumulated = 0]_vars

\* the duration grew again after a reset
C10_Witness ==
    /\ wreset
    /\ op \in {"stop", "pause"}
    /\ stop_watch.accumulated >= 2

\* the clock string of n milliseconds, n < 10
ClockOfMillis(n) ==
    <<"00:00:00.000", "00:00:00.001", "00:00:00.002", "00:00:00.003",
      "00:00:00.004", "00:00:00.005", "00:00:00.006", "00:00:00.007",
      "00:00:00.008", "00:00:00.009">>[n + 1]

\* C11: rendering a timer as text gives the clock string of the stored
\* duration plus the in-flight interval, 00:00:00.000 for a timer that has
\* accumulated nothing, and changes neither the accumulated duration, nor the
\* checkpoint, nor the running flag.
C11_DisplayIncludesInFlight ==
    /\ [](op = "to_string"
            => text = ClockOfMillis(stop_watch.accumulated + InFlight))
    /\ []((op = "to_string" /\ stop_watch.accumulated = 0
             /\ stop_watch.is_stopped) => text = "00:00:00.000")
    /\ [][op' = "to_string" => stop_watch' = stop_watch]_vars

\* a running timer with one stored and two in-flight milliseconds is rendered
C11_Witness ==
    /\ op = "to_string"
    /\ ~stop_watch.is_stopped
    /\ stop_watch.accumulated = 1
    /\ InFlight = 2
    /\ text = "00:00:00.003"

\* ------------------------------------------------- properties of SpecSuite
\* a benchmark named n is in the list of benchmark definitions
Registered(n) ==
    \E k \in 1..Len(suite.benchmarks) : suite.benchmarks[k].name = n

\* C12: add returns an error exactly when a benchmark of that name is already
\* registered or repeat = 0, and in every other case it returns Ok and the
\* benchmark is registered.
C12_AddFailsOnlyOnDuplicateOrZeroRepeat ==
    [][call'.op = "add"
         => /\ (call'.result.tag = "Err")
                  <=> (Registered(call'.name) \/ call'.repeat = 0)
            /\ call'.result.tag = "Ok"
                  => /\ Len(suite'.benchmarks) = Len(suite.benchmarks) + 1
                     /\ suite'.benchmarks[Len(suite'.benchmarks)].name
                            = call'.name]_vars

\* C13: an add that returns an error leaves the set of names, the list of
\* benchmark definitions and the stored summaries as they were.
C13_FailedAddChangesNothing ==
    [][(call'.op = "add" /\ call'.result.tag = "Err") => suite' = suite]_vars

\* the names of the benchmark definitions of the suite
BenchmarkNames == {suite.benchmarks[k].name : k \in 1..Len(suite.benchmarks)}

\* C14: right after a run that returned Ok, summary() has the name of the
\* suite and one series for each registered benchmark, under the name of the
\* benchmark, which is also the name inside the series; before the first
\* run it has no series.
C14_SummaryKeyedByBenchmarkName ==
    /\ [](runs_done = 0 => DOMAIN Benchmarks_summary(suite).series = {})
    /\ []((call.op = "run" /\ call.result.tag = "Ok")
            => LET summary == Benchmarks_summary(suite)
               IN  /\ summary.name = suite.name
                   /\ DOMAIN summary.series = BenchmarkNames
                   /\ \A n \in DOMAIN summary.series :
                         summary.series[n].name = n)
    /\ [][call'.op = "summary"
            => call'.result = Benchmarks_summary(suite)]_vars

\* a run of two benchmarks returned Ok
C14_Witness ==
    /\ call.op = "run"
    /\ call.result.tag = "Ok"
    /\ BenchmarkNames = {"a", "b"}
    /\ DOMAIN suite.summaries = {"a", "b"}

\* C15: right after a run that returned Ok, the series stored for each
\* benchmark is the one this run built: one entry for each workload point,
\* whatever was stored for the benchmark before.
C15_LatestRunOnly ==
    (call.op = "run" /\ call.result.tag = "Ok")
        => \A k \in 1..Len(suite.benchmarks) :
              LET b == suite.benchmarks[k]
              IN  /\ b.name \in DOMAIN suite.summaries
                  /\ Len(suite.summaries[b.name].runs) = Len(b.work)
                  /\ suite.summaries[b.name]
                        = Benchmark_run(b, call.outcomes[k]).value

\* the second run replaces a series of two workload points by another one
C15_Witness ==
    /\ call.op = "run"
    /\ call.result.tag = "Ok"
    /\ runs_done = 2
    /\ \E k \in 1..Len(suite.benchmarks) :
          LET b == suite.benchmarks[k]
          IN  /\ Len(b.work) = 2
              /\ b.name \in DOMAIN call.before
              /\ Len(call.before[b.name].runs) = 2
              /\ call.before[b.name] # suite.summaries[b.name]

\* C31: when run fails inside the k-th registered benchmark it returns the
\* error of the workload function; the series of the benchmarks before the
\* k-th are those of this run, and the series of the k-th and of every later
\* benchmark, which is not executed, is the one stored before the call, or
\* none if none was stored.
C31_FailedRunUpdatesPrefix ==
    (call.op = "run" /\ call.result.tag = "Err") =>
        LET bs == suite.benchmarks
            os == call.outcomes
            k == CHOOSE n \in 1..Len(bs) :
                     /\ os[n].tag = "Err"
                     /\ \A j \in 1..(n - 1) : os[j].tag = "Ok"
        IN  /\ \E n \in 1..Len(bs) : os[n].tag = "Err"
            /\ call.result = Err(Error_from(os[k].value))
            /\ \A j \in 1..(k - 1) :
                  /\ bs[j].name \in DOMAIN suite.summaries
                  /\ suite.summaries[bs[j].name]
                        = Benchmark_run_series(bs[j], os[j].value,
                                               Len(bs[j].work))
            /\ \A j \in k..Len(bs) :
                  /\ bs[j].name \in DOMAIN suite.summaries
                        <=> bs[j].name \in DOMAIN call.before
                  /\ bs[j].name \in DOMAIN call.before
                        => suite.summaries[bs[j].name]
                             = call.before[bs[j].name]

\* the second run of a suite of two benchmarks fails in the second one: the
\* series of the first is new, the series of the second is that of the first
\* run, although the workload function would have taken another time
C31_Witness ==
    /\ call.op = "run" /\ call.result.tag = "Err"
    /\ Len(suite.benchmarks) = 2
    /\ call.outcomes[1].tag = "Ok"
    /\ call.outcomes[2].tag = "Err"
    /\ DOMAIN call.before = BenchmarkNames
    /\ suite.summaries[suite.benchmarks[1].name]
          # call.before[suite.benchmarks[1].name]
    /\ suite.summaries[suite.benchmarks[2].name]
          = call.before[suite.benchmarks[2].name]
    /\ Len(suite.summaries[suite.benchmarks[2].name].runs) > 0

\* the first of two benchmarks fails before the first run has stored anything:
\* the second, whose workload function would return Ok, has no series
C31_LaterNotExecuted ==
    /\ call.op = "run" /\ call.result.tag = "Err"
    /\ Len(suite.benchmarks) = 2
    /\ call.outcomes[1].tag = "Err"
    /\ call.outcomes[2].tag = "Ok"
    /\ DOMAIN suite.summaries = {}

\* ----------------------------------------------- properties of SpecAnalyze
\* analyze was called with a text that is the JSON of a summary
PrevGiven ==
    /\ call.op = "analyze"
    /\ call.prev.tag = "Some"
    /\ Summary_from_str(call.prev.value).tag = "Ok"

\* that summary, and the one analyze compares with it
PrevSummary == Summary_from_str(call.prev.value).value
CurrentSummary == Benchmarks_summary(suite)

\* the benchmark names of the summaries of the call
CurrentNames == DOMAIN CurrentSummary.series
PrevNames == IF PrevGiven THEN DOMAIN PrevSummary.series ELSE {}
SharedNames == CurrentNames \cap PrevNames

\* C16: when the previous summary has another suite name than the current
\* one, analyze returns an error and no AnalysisResult, whatever the series.
C16_SuiteNameMismatchFails ==
    (PrevGiven /\ PrevSummary.name # CurrentSummary.name)
        => call.result.tag = "Err"

\* the suite names differ and the series of the shared benchmark would
\* compare: same single point, same median
C16_Witness ==
    /\ PrevGiven
    /\ PrevSummary.name = "T"
    /\ CurrentSummary.name = "S"
    /\ "a" \in SharedNames
    /\ CurrentSummary.series["a"] = PrevSummary.series["a"]
    /\ Len(CurrentSummary.series["a"].runs) = 1
    /\ call.result = Err("Comparing differently named benchmarks.rs")

\* C17: analyze without a previous summary returns Ok for every threshold,
\* with every benchmark name of the current summary in the new series and
\* nothing in the equal and the divergent series.
C17_NoPreviousAllNew ==
    (call.op = "analyze" /\ call.prev.tag = "None")
        => /\ call.result.tag = "Ok"
           /\ call.result.value.new_series = CurrentNames
           /\ DOMAIN call.result.value.equal_series = {}
           /\ DOMAIN call.result.value.divergent_series = {}

\* no previous summary, a current summary of two series, of which one is
\* empty, and a negative threshold
C17_Witness ==
    /\ call.op = "analyze"
    /\ call.prev.tag = "None"
    /\ call.threshold = -100
    /\ CurrentNames = {"a", "b"}
    /\ Len(CurrentSummary.series["a"].runs) = 0
    /\ call.result.tag = "Ok"
    /\ call.result.value.new_series = {"a", "b"}

\* C18: when analyze returns Ok, each name of the current summary is in
\* exactly one of the new, equal and divergent series, in the new ones exactly
\* when the previous summary has no series of that name, and a name that only
\* the previous summary has is in none of the three.
C18_ExactlyOneClass ==
    (call.op = "analyze" /\ call.result.tag = "Ok")
        => LET ar == call.result.value
               new == ar.new_series
               equal == DOMAIN ar.equal_series
               divergent == DOMAIN ar.divergent_series
           IN  /\ \A n \in CurrentNames :
                     /\ n \in new \cup equal \cup divergent
                     /\ ~(n \in new /\ n \in equal)
                     /\ ~(n \in new /\ n \in divergent)
                     /\ ~(n \in equal /\ n \in divergent)
                     /\ n \in new <=> n \notin PrevNames
               /\ \A n \in PrevNames \ CurrentNames :
                     n \notin new \cup equal \cup divergent

\* a is divergent, b is new and c is only in the previous summary
C18_Witness ==
    /\ PrevGiven
    /\ call.result.tag = "Ok"
    /\ PrevNames = {"a", "c"}
    /\ CurrentNames = {"a", "b"}
    /\ call.result.value.new_series = {"b"}
    /\ DOMAIN call.result.value.divergent_series = {"a"}
    /\ DOMAIN call.result.value.equal_series = {}

\* C19: analyze returns an error when a benchmark of both summaries has no
\* workload point in the current series or in the previous series.
C19_EmptySeriesFails ==
    (PrevGiven
       /\ \E n \in SharedNames :
             \/ Len(CurrentSummary.series[n].runs) = 0
             \/ Len(PrevSummary.series[n].runs) = 0)
        => call.result.tag = "Err"

\* the suite names are equal and the series of a is empty in both summaries
C19_Witness ==
    /\ PrevGiven
    /\ PrevSummary.name = CurrentSummary.name
    /\ SharedNames = {"a"}
    /\ Len(CurrentSummary.series["a"].runs) = 0
    /\ Len(PrevSummary.series["a"].runs) = 0
    /\ call.result = Err("Can compare only non empty series")

\* the errors of compare_series
ComparisonErrors ==
    {Err("Can compare only non empty series"),
     Err("Can compare series with identical workload points only")}

\* C20: analyze returns an error when, for a benchmark of both summaries, the
\* list of points of the current series is not the list of points of the
\* previous series (in length, in a point at some index, or in order); with
\* equal suite names the error is one of compare_series.
C20_DifferentPointsFail ==
    (PrevGiven
       /\ \E n \in SharedNames :
             points_of(CurrentSummary.series[n].runs)
                 # points_of(PrevSummary.series[n].runs))
        => /\ call.result.tag = "Err"
           /\ PrevSummary.name = CurrentSummary.name
                 => call.result \in ComparisonErrors

\* the suite names are equal and a has the points 2, 1 in the current and
\* 1, 2 in the previous summary, with equal medians
C20_Witness ==
    /\ PrevGiven
    /\ PrevSummary.name = CurrentSummary.name
    /\ SharedNames = {"a"}
    /\ points_of(CurrentSummary.series["a"].runs) = <<"2", "1">>
    /\ points_of(PrevSummary.series["a"].runs) = <<"1", "2">>
    /\ CurrentSummary.series["a"].runs[1][2]
          = PrevSummary.series["a"].runs[2][2]
    /\ call.result =
          Err("Can compare series with identical workload points only")

\* C32: analyze returns an error and no AnalysisResult as soon as one
\* benchmark of both summaries has an empty series or series with different
\* points, whatever the other series are; whether it returns an error, and
\* the AnalysisResult it returns otherwise, are the same for every order in
\* which the series of the current summary are visited.
C32_AllOrNothingAnyOrder ==
    call.op = "analyze" =>
        /\ (/\ PrevGiven
            /\ \E n \in SharedNames :
                  LET cur == points_of(CurrentSummary.series[n].runs)
                      prev == points_of(PrevSummary.series[n].runs)
                  IN  cur = <<>> \/ prev = <<>> \/ cur # prev)
              => call.result.tag = "Err"
        /\ \A order \in Orders(CurrentNames) :
              LET r == Benchmarks_analyze(suite, call.prev,
                                          f64_from_int(call.threshold), order)
              IN  /\ r.tag = call.result.tag
                  /\ r.tag = "Ok" => r = call.result

\* a has different points in the two summaries, b compares and c is only in
\* the previous summary: analyze returns the error of a in both orders
C32_Witness ==
    /\ PrevGiven
    /\ PrevSummary.name = CurrentSummary.name
    /\ CurrentNames = {"a", "b"}
    /\ PrevNames = {"a", "b", "c"}
    /\ points_of(CurrentSummary.series["a"].runs) = <<"2", "1">>
    /\ points_of(PrevSummary.series["a"].runs) = <<"1", "2">>
    /\ points_of(CurrentSummary.series["b"].runs)
          = points_of(PrevSummary.series["b"].runs)
    /\ call.result
          = Err("Can compare series with identical workload points only")

\* a succeeds in both orders: a and b compare, with a divergent and b equal
C32_BothOrdersSameResult ==
    /\ PrevGiven
    /\ call.result.tag = "Ok"
    /\ CurrentNames = {"a", "b"}
    /\ DOMAIN call.result.value.divergent_series = {"a"}
    /\ DOMAIN call.result.value.equal_series = {"b"}

\* C33: after a successful comparison of a series the result has one
\* comparison for each index of the series, and the comparison under the
\* identity p is the one of the current and the previous median at the index
\* of p.
C33_OneComparisonPerIndex ==
    (PrevGiven /\ call.result.tag = "Ok") =>
        \A n \in SharedNames :
            LET ar == call.result.value
                comparisons == IF n \in DOMAIN ar.equal_series
                               THEN ar.equal_series[n]
                               ELSE ar.divergent_series[n]
                cur == CurrentSummary.series[n].runs
                prev == PrevSummary.series[n].runs
            IN  /\ Cardinality(DOMAIN comparisons) = Len(cur)
                /\ \A k \in DOMAIN cur :
                      /\ cur[k][1] \in DOMAIN comparisons
                      /\ comparisons[cur[k][1]]
                            = compare_median(cur[k][1],
                                             u64(cur[k][2].median_nanos),
                                             u64(prev[k][2].median_nanos),
                                             f64_from_int(call.threshold))

\* C33 for the series in which no identity is repeated
C33_OneComparisonPerDistinctPoint ==
    (\A k \in 1..Len(suite.benchmarks) : suite.benchmarks[k].work # <<1, 1>>)
        => C33_OneComparisonPerIndex

\* benchmark a has the work list (1, 1): its series of two points has one
\* comparison, that of the second index, and the medians 0 and 1 tick of the
\* first index are in no comparison
C33_OneComparisonForTwoPoints ==
    /\ PrevGiven
    /\ call.result.tag = "Ok"
    /\ "a" \in DOMAIN call.result.value.equal_series
    /\ DOMAIN call.result.value.equal_series["a"] = {"1"}
    /\ Len(CurrentSummary.series["a"].runs) = 2
    /\ CurrentSummary.series["a"].runs[1][2].median_nanos = 0
    /\ PrevSummary.series["a"].runs[1][2].median_nanos = NanosPerTick
    /\ call.result.value.equal_series["a"]["1"].current = u64(NanosPerTick)
    /\ call.result.value.equal_series["a"]["1"].previous = u64(NanosPerTick)

\* C35: analyze leaves the suite as it is, whether it returns Ok or Err: the
\* registered names, the benchmark definitions and the stored series, and
\* with them what summary() returns, are those of before the call.
C35_AnalyzeChangesNothing ==
    [][call'.op = "analyze" =>
          /\ suite'.names = suite.names
          /\ suite'.benchmarks = suite.benchmarks
          /\ suite'.summaries = suite.summaries
          /\ Benchmarks_summary(suite') = Benchmarks_summary(suite)
          /\ DOMAIN suite' = {"name", "names", "benchmarks", "summaries"}
          /\ runs_done' = runs_done]_vars

\* analyze returned a result with a divergent series for a suite that has
\* run, against a previous summary with other series than the suite's
C35_Witness ==
    /\ PrevGiven
    /\ runs_done = 1
    /\ call.result.tag = "Ok"
    /\ DOMAIN call.result.value.divergent_series # {}
    /\ PrevSummary.series # suite.summaries
    /\ DOMAIN suite.summaries = {"a", "b"}

\* analyze returned an error for a suite that has run
C35_AfterError ==
    /\ PrevGiven
    /\ runs_done = 1
    /\ call.result.tag = "Err"
    /\ DOMAIN suite.summaries = {"a", "b"}

\* the run of the current suite returned Ok
CurrentRunOk == runs_done = 1 /\ DOMAIN suite.summaries = BenchmarkNames

\* every benchmark of the current suite has a workload point
CurrentWorkNonEmpty ==
    \A k \in 1..Len(suite.benchmarks) : suite.benchmarks[k].work # <<>>

\* C22: analyze with threshold t and with -t give the same outcome, the
\* same error or the same result with the same comparisons in the same sets,
\* for every pair of summaries: an iteration order of the series that gives
\* the outcome of the call with t gives it with -t.
C22_ThresholdSymmetric ==
    call.op = "analyze" =>
        \A order \in Orders(CurrentNames) :
            \/ Benchmarks_analyze(suite, call.prev,
                                  f64_from_int(-call.threshold), order)
                   = call.result
            \/ Benchmarks_analyze(suite, call.prev,
                                  f64_from_int(call.threshold), order)
                   # call.result

\* threshold -100 and a series of two points in the equal set, one of which
\* has different medians: the threshold decided, by its absolute value
C22_Witness ==
    /\ PrevGiven
    /\ call.threshold = -100
    /\ call.result.tag = "Ok"
    /\ \E n \in DOMAIN call.result.value.equal_series :
          LET comparisons == call.result.value.equal_series[n]
          IN  /\ Cardinality(DOMAIN comparisons) = 2
              /\ \E p \in DOMAIN comparisons :
                    comparisons[p].current # comparisons[p].previous

\* C24: a compared series is in the divergent set iff at least one of its
\* points is classified Less or Greater, in the equal set iff every one of
\* its points is classified Equal, and never in both.
C24_PlacementByPoints ==
    (PrevGiven /\ call.result.tag = "Ok") =>
        \A n \in SharedNames :
            LET cur == CurrentSummary.series[n].runs
                prev == PrevSummary.series[n].runs
                kind(k) ==
                    compare_median(cur[k][1], u64(cur[k][2].median_nanos),
                                   u64(prev[k][2].median_nanos),
                                   f64_from_int(call.threshold)).kind
                divergent == n \in DOMAIN call.result.value.divergent_series
                equal == n \in DOMAIN call.result.value.equal_series
            IN  /\ divergent <=> \E k \in DOMAIN cur : kind(k) # "Equal"
                /\ equal <=> \A k \in DOMAIN cur : kind(k) = "Equal"
                /\ ~(divergent /\ equal)

\* the placement by the comparisons that the result holds: the claim of C24
\* for series whose workload points have different identities
C24_PlacementByRecorded ==
    (PrevGiven /\ call.result.tag = "Ok") =>
        \A n \in SharedNames :
            LET ar == call.result.value
                divergent == n \in DOMAIN ar.divergent_series
                equal == n \in DOMAIN ar.equal_series
                comparisons == IF equal THEN ar.equal_series[n]
                               ELSE ar.divergent_series[n]
            IN  /\ divergent <=> \E p \in DOMAIN comparisons :
                                    comparisons[p].kind # "Equal"
                /\ equal <=> \A p \in DOMAIN comparisons :
                                comparisons[p].kind = "Equal"
                /\ ~(divergent /\ equal)

\* benchmark a has the work list (1, 1); its first point was 1 tick before and
\* is 0 ticks now, which compare_median classifies Less, its second point is
\* unchanged, and the series is in the equal set
C24_LessPointInEqualSeries ==
    /\ PrevGiven
    /\ call.result.tag = "Ok"
    /\ call.threshold = 0
    /\ "a" \in DOMAIN call.result.value.equal_series
    /\ points_of(CurrentSummary.series["a"].runs) = <<"1", "1">>
    /\ CurrentSummary.series["a"].runs[1][2].median_nanos = 0
    /\ PrevSummary.series["a"].runs[1][2].median_nanos = NanosPerTick

\* C25: after a successful run, analyze of the suite against its own
\* summary_as_json with threshold 0 returns a result with no new series, no
\* divergent series and every point Equal.
C25_SelfAnalysisAllEqual ==
    (/\ call.op = "analyze"
     /\ CurrentRunOk
     /\ call.prev = Some(Benchmarks_summary_as_json(suite))
     /\ call.threshold = 0)
        => /\ call.result.tag = "Ok"
           /\ call.result.value.new_series = {}
           /\ DOMAIN call.result.value.divergent_series = {}
           /\ DOMAIN call.result.value.equal_series = CurrentNames
           /\ \A n \in DOMAIN call.result.value.equal_series :
                 \A p \in DOMAIN call.result.value.equal_series[n] :
                     call.result.value.equal_series[n][p].kind = "Equal"

\* C25 for suites in which every benchmark has at least one workload point
C25_SelfAnalysisAllEqualNonEmpty ==
    CurrentWorkNonEmpty => C25_SelfAnalysisAllEqual

\* a suite with the benchmarks a, of two workload points one of which took 0
\* ticks, and b, analysed against its own summary with threshold 0
C25_Witness ==
    /\ call.op = "analyze"
    /\ CurrentRunOk
    /\ CurrentWorkNonEmpty
    /\ call.prev = Some(Benchmarks_summary_as_json(suite))
    /\ call.threshold = 0
    /\ BenchmarkNames = {"a", "b"}
    /\ suite.benchmarks[1].work = <<2, 1>>
    /\ suite.summaries["a"].runs[1][2].median_nanos = 0
    /\ suite.summaries["a"].runs[2][2].median_nanos = NanosPerTick
    /\ call.result.tag = "Ok"
    /\ DOMAIN call.result.value.equal_series = {"a", "b"}

\* a suite whose benchmark a has no workload point, run and analysed
\* against its own summary: analyze returns an error
C25_EmptyWorkFails ==
    /\ call.op = "analyze"
    /\ CurrentRunOk
    /\ call.prev = Some(Benchmarks_summary_as_json(suite))
    /\ call.threshold = 0
    /\ BenchmarkNames = {"a"}
    /\ suite.benchmarks[1].work = <<>>
    /\ call.result = Err("Can compare only non empty series")

\* C27: two successful runs of suites with the same name and the same
\* benchmark definitions, all with workload points, give series with the same
\* lists of point identities, and analyze of the second against the first
\* does not fail.
C27_SameRegistrationsCompare ==
    (/\ PrevGiven
     /\ CurrentRunOk
     /\ CurrentWorkNonEmpty
     /\ call.registered = suite.benchmarks
     /\ PrevSummary.name = CurrentSummary.name
     /\ PrevNames = BenchmarkNames)
        => /\ \A n \in CurrentNames :
                 points_of(CurrentSummary.series[n].runs)
                     = points_of(PrevSummary.series[n].runs)
           /\ call.result.tag = "Ok"

\* two runs of the suite with a on (2, 1) and b, with other durations in the
\* second run than in the first: analyze returns Ok with a divergent series
C27_Witness ==
    /\ PrevGiven
    /\ CurrentRunOk
    /\ call.registered = suite.benchmarks
    /\ BenchmarkNames = {"a", "b"}
    /\ suite.benchmarks[1].work = <<2, 1>>
    /\ PrevSummary.name = CurrentSummary.name
    /\ PrevSummary # CurrentSummary
    /\ call.result.tag = "Ok"
    /\ call.result.value.new_series = {}
    /\ "a" \in DOMAIN call.result.value.divergent_series

\* ------------------------------------------------ properties of SpecRunAll
\* N * (ramp_up + repeat) summed over the first k benchmarks of the suite
RECURSIVE InvocationBound(_)
InvocationBound(k) ==
    IF k = 0
    THEN 0
    ELSE InvocationBound(k - 1)
           + Len(suite.benchmarks[k].work)
               * (suite.benchmarks[k].ramp_up + suite.benchmarks[k].repeat)

\* the invocations of the workload function since run was called
Invocations ==
    IF call.op = "new" THEN 0 ELSE call.invocations + Len(calls)

\* C37: when every invocation of the workload function returns,
\* Benchmarks::run returns, with Ok or with an error, and at no time has it
\* made more invocations than the sum of N * (ramp_up + repeat) over the
\* registered benchmarks; only an invocation that does not return keeps run
\* from returning.
C37_RunTerminates ==
    /\ [](Invocations <= InvocationBound(Len(suite.benchmarks)))
    /\ [](call.op = "run" =>
            /\ call.result.tag \in {"Ok", "Err"}
            /\ call.result.tag = "Ok" =>
                  Invocations = InvocationBound(Len(suite.benchmarks)))
    /\ [](InCall => <>(~InCall)) => <>(call.op = "run")

\* run returned Ok for a suite of two benchmarks after 2 + 4 invocations
C37_Witness ==
    /\ call.op = "run"
    /\ call.result.tag = "Ok"
    /\ Len(suite.benchmarks) = 2
    /\ suite.benchmarks[1].work = <<1>>
    /\ suite.benchmarks[2].work = <<2, 1>>
    /\ call.invocations = 6
    /\ DOMAIN suite.summaries = {"a", "b"}

\* run returned the error of the second benchmark after 3 of 6 invocations
C37_ReturnsFirstError ==
    /\ call.op = "run"
    /\ call.result.tag = "Err"
    /\ Len(suite.benchmarks) = 2
    /\ call.invocations = 3
    /\ InvocationBound(2) = 6
    /\ DOMAIN suite.summaries = {"a"}

\* ------------------------------------------------- properties of SpecStats
\* C29: min and max of a RunSummary are the least and the greatest of the
\* durations of the point, the median is the middle one of the sorted
\* durations, for an even count the mean of the two middle ones without its
\* fraction of a nanosecond, and min <= median <= max.
C29_MinMedianMax ==
    call.op = "summarise" =>
        LET d == call.nanos
            n == Len(d)
            r == call.result
            \* x is the k-th of the durations in ascending order
            kth(x, k) ==
                /\ Cardinality({j \in 1..n : d[j] < x}) < k
                /\ Cardinality({j \in 1..n : d[j] <= x}) >= k
        IN  /\ \E j \in 1..n : d[j] = r.min_nanos
            /\ \A j \in 1..n : r.min_nanos <= d[j]
            /\ \E j \in 1..n : d[j] = r.max_nanos
            /\ \A j \in 1..n : d[j] <= r.max_nanos
            /\ n % 2 = 1 => kth(r.median_nanos, (n + 1) \div 2)
            /\ n % 2 = 0 =>
                  \E lower, upper \in 0..MaxNanos :
                      /\ kth(lower, n \div 2)
                      /\ kth(upper, n \div 2 + 1)
                      /\ 2 * r.median_nanos <= lower + upper
                      /\ lower + upper < 2 * r.median_nanos + 2
            /\ r.min_nanos <= r.median_nanos
            /\ r.median_nanos <= r.max_nanos
            /\ r.repeat = n

\* four durations that are not in order and whose middle values 1 and 2 have
\* the mean 1.5: the median is 1
C29_Witness ==
    /\ call.op = "summarise"
    /\ call.nanos = <<3, 0, 2, 1>>
    /\ call.result.min_nanos = 0
    /\ call.result.median_nanos = 1
    /\ call.result.max_nanos = 3

\* ----------------------------------------------- properties of SpecCompare
\* C21: the change is (current as f64 / (previous as f64 / 100.0)) - 100.0;
\* the comparison is Equal when the medians are equal or |change| is at most
\* |threshold|, otherwise Less when the change is negative and Greater when it
\* is not; it carries point, previous, current and change. With previous 100
\* and threshold 10, current 150 is Greater with change 50.0 and current 60 is
\* Less with change -40.0; current 104 at threshold 5 is Equal with change 4.0.
C21_CompareMedian ==
    call.op = "compare_median" =>
        LET r == call.result
            hundred == f64_finite(FALSE, [hi |-> 6553600, lo |-> 0], -46)
            change == f64_sub(f64_div(f64_from_u64(call.current),
                                      f64_div(f64_from_u64(call.previous),
                                              hundred)),
                              hundred)
            equal == \/ call.current = call.previous
                     \/ f64_le(f64_abs(change),
                               f64_abs(f64_from_int(call.threshold)))
            example(previous, current, threshold) ==
                /\ call.previous = u64(previous)
                /\ call.current = u64(current)
                /\ call.threshold = threshold
        IN  /\ r.change = change
            /\ r.kind = "Equal" <=> equal
            /\ r.kind = "Less" <=> (~equal /\ f64_negative(change))
            /\ r.kind = "Greater" <=> (~equal /\ ~f64_negative(change))
            /\ r.point = call.point
            /\ r.previous = call.previous
            /\ r.current = call.current
            /\ example(100, 150, 10) =>
                  /\ r.kind = "Greater"
                  /\ r.change =
                        f64_finite(FALSE, [hi |-> 6553600, lo |-> 0], -47)
            /\ example(100, 60, 10) =>
                  /\ r.kind = "Less"
                  /\ r.change =
                        f64_finite(TRUE, [hi |-> 5242880, lo |-> 0], -47)
            /\ example(100, 104, 5) =>
                  /\ r.kind = "Equal"
                  /\ r.change =
                        f64_finite(FALSE, [hi |-> 4194304, lo |-> 0], -50)

\* previous 100, current 150, threshold 10: Greater with a change of 50.0
C21_Witness ==
    /\ call.op = "compare_median"
    /\ call.previous = u64(100) /\ call.current = u64(150)
    /\ call.threshold = 10
    /\ call.result.kind = "Greater"
    /\ call.result.change = f64_finite(FALSE, [hi |-> 6553600, lo |-> 0], -47)

\* previous 14, current 7, threshold 50: the quotient 7 / 0.14 is rounded
\* above 50, the change is -50.00000000000001 and the comparison is Less
C21_RoundedChange ==
    /\ call.op = "compare_median"
    /\ call.previous = u64(14) /\ call.current = u64(7)
    /\ call.threshold = 50
    /\ call.result.kind = "Less"
    /\ call.result.change =
          f64_finite(TRUE, [hi |-> 6553600, lo |-> 1], -47)

\* C34: with a previous median of 0 the comparison is Equal when the
\* current median is 0 too and Greater when it is above 0, for every finite
\* threshold; it is never Less and there is no error.
C34_PreviousZero ==
    (call.op = "compare_median" /\ call.previous = u64(0)) =>
        /\ call.current = u64(0) => call.result.kind = "Equal"
        /\ call.current # u64(0) => call.result.kind = "Greater"

\* previous 0, current 2^53 + 1, threshold 50: Greater, the change being +inf
C34_Witness ==
    /\ call.op = "compare_median"
    /\ call.previous = u64(0) /\ call.current = wide_inc(Two53)
    /\ call.threshold = 50
    /\ call.result.kind = "Greater"
    /\ call.result.change = f64_inf(FALSE)

\* previous 0 and current 0: Equal, the change being NaN
C34_EqualAtNaN ==
    /\ call.op = "compare_median"
    /\ call.previous = u64(0) /\ call.current = u64(0)
    /\ call.result.kind = "Equal"
    /\ call.result.change = f64_nan

\* C23: with threshold 0 a point is Equal exactly when its current median
\* equals its previous median; any difference of the medians gives Less or
\* Greater.
C23_ZeroThresholdExact ==
    (call.op = "compare_median" /\ call.threshold = 0) =>
        (call.result.kind = "Equal" <=> call.current = call.previous)

\* previous 2^53, current 2^53 + 1, threshold 0: Equal with change 0.0
C23_EqualAtDifferentMedians ==
    /\ call.op = "compare_median"
    /\ call.threshold = 0
    /\ call.previous = Two53 /\ call.current = wide_inc(Two53)
    /\ call.result.kind = "Equal"
    /\ call.result.change = f64_zero(FALSE)

====
